---- MODULE Spec2Model ----
(***************************************************************************)
(* A model of the MiniBlockChain core: the vote collector, the two-phase   *)
(* consensus engine, the executor it calls, and the node orchestrator      *)
(* driven by the simulation loop over the unreliable transport.            *)
(*                                                                         *)
(* Specifications:                                                         *)
(*   Spec          N honest nodes under the driver loop of test_e2e.py     *)
(*                 (network.tick, then every node.tick in order), with a   *)
(*                 transport that drops, duplicates and shuffles.          *)
(*   SpecEngine    one ConsensusEngine fed any bounded sequence of         *)
(*                 receive_proposal / receive_vote calls.                  *)
(*   SpecSigners   one ConsensusEngine fed proposals and votes in which    *)
(*                 every signing key votes at most once per phase and      *)
(*                 height.                                                 *)
(*   SpecCollector one VoteCollector fed any sequence of add_vote calls.   *)
(***************************************************************************)
EXTENDS Integers, Sequences, FiniteSets, TLC

VARIABLES
    consensus,      \* node -> ConsensusEngine (with its VoteCollector and Executor)
    tx_pool,        \* node -> BlockchainNode.tx_pool
    sent_votes,     \* node -> BlockchainNode.sent_votes
    accepted_headers,     \* node -> BlockchainNode.accepted_headers
    requested_bodies,     \* node -> BlockchainNode.requested_bodies
    pending_block_bodies, \* node -> BlockchainNode.pending_block_bodies
    message_queue,  \* UnreliableNetwork.message_queue
    inboxes,        \* UnreliableNetwork.inboxes
    phase,          \* position of the driver: "setup", "net", "node", or the harness running
    turn,           \* the node whose tick() is running
    dropped_count,  \* UnreliableNetwork.dropped_count
    duplicated_count, \* UnreliableNetwork.duplicated_count
    validated,      \* history: node -> block hashes for which _validate_proposal returned True
    calls,          \* number of calls the harness has made (engine calls, loop iterations)
    collector,      \* SpecCollector: the VoteCollector under test
    last_vote,      \* SpecCollector: the vote of the last add_vote call
    last_result,    \* SpecCollector: what that call returned
    buffered_votes, \* SpecEngine history: votes the engine appended to pending_votes on arrival
    executor,       \* SpecExecutor: Executor.processed_nonces of the executor under test
    exec_call,      \* SpecExecutor: the last call on the executor or a State, with its result
    limiter         \* SpecRate: the clock and the rate-limit fields of UnreliableNetwork

vars == <<consensus, tx_pool, sent_votes, accepted_headers, requested_bodies,
          pending_block_bodies, message_queue, inboxes, phase, turn,
          dropped_count, duplicated_count, validated, calls,
          collector, last_vote, last_result, buffered_votes, executor, exec_call,
          limiter>>

(***************************************************************************)
(* Bounds                                                                  *)
(***************************************************************************)
NumValidators == 4      \* validators of the run
MaxHeight == 2          \* leaders propose only while current_height <= MaxHeight
MaxSubmit == 1          \* transactions submitted before the driver loop starts
MaxFaults == 1          \* messages the transport may drop or duplicate in a run
GenesisBalance == 1     \* initial balance of every validator
MaxCalls == 6           \* SpecEngine: engine calls in a run
MaxPendingVotes == 2    \* SpecEngine: votes buffered before their block arrives
MaxN == 4               \* SpecCollector: largest total_validators
MaxSignerCalls == 8     \* SpecSigners: engine calls in a run
MaxOutsiders == 3       \* SpecSigners: signing keys that are not in all_validators
MaxBuffered == 1        \* SpecSigners: votes buffered before their block arrives
MaxLagCalls == 8        \* SpecLag: engine calls in a run
MaxTicks == 10          \* SpecSingle: iterations of the driver loop
SingleBalance == 1000   \* SpecSingle: initial balance of every validator in the test
SingleAmount == 50      \* SpecSingle: amount of the transfer the test submits
MaxPoolCalls == 2       \* SpecPool: transactions handed or sent to the nodes in a run
max_sends_per_second == 3 \* SpecRate: the limit of sends per window (100 in the code)
MaxSends == 7           \* SpecRate: send_message calls in a run
MaxTime == 7            \* SpecRate: seconds of simulated time in a run
RateWindow == 1         \* seconds after which _check_rate_limit opens a new window
block_duration == 5     \* UnreliableNetwork.block_duration, in seconds
MaxAmount == 2          \* SpecExecutor: largest amount of a transaction, either sign
MaxNonce == 1           \* SpecExecutor: largest nonce of a transaction
MaxTxs == 2             \* SpecExecutor: longest list given to execute_transactions

Validators == 0 .. (NumValidators - 1)
\* all_validators: the shared validator list; list index i holds address i
all_validators == [i \in 1 .. NumValidators |-> i - 1]
GenesisProposer == NumValidators     \* stands for the string "genesis"
ChainId == "test-chain"
OtherChainId == "other-chain"

(***************************************************************************)
(* crypto: hashing and signatures                                          *)
(***************************************************************************)
\* hash_dict_hex: an injective digest of the canonical encoding
hash_dict_hex(data) == <<"sha256", data>>
\* "0" * 64
ZeroHash == <<"0">>

\* SignedMessage.sign: the signature binds the key, the domain, the chain id and the data
Sign(key, domain, chain_id, data) ==
    [signer |-> key, domain |-> domain, chain_id |-> chain_id, data |-> data]
NoSignature == [signer |-> GenesisProposer, domain |-> "", chain_id |-> "", data |-> <<>>]
\* SignedMessage.verify under the public key decoded from an address
VerifySignature(address, signature, domain, chain_id, data) ==
    /\ signature # NoSignature
    /\ signature.signer = address
    /\ signature.domain = domain
    /\ signature.chain_id = chain_id
    /\ signature.data = data

(***************************************************************************)
(* execution: State, Transaction, Executor                                 *)
(***************************************************************************)
TxData(tx) == <<tx.from_addr, tx.to_addr, tx.amount, tx.nonce>>
\* Transaction(...) followed by sign(keypair)
SignedTx(from, to, amount, nonce, chain_id, key) ==
    [from_addr |-> from, to_addr |-> to, amount |-> amount, nonce |-> nonce,
     chain_id |-> chain_id,
     signature |-> Sign(key, "TX", chain_id, <<from, to, amount, nonce>>)]
TxVerify(tx) ==
    VerifySignature(tx.from_addr, tx.signature, "TX", tx.chain_id, TxData(tx))
TxHash(tx) == hash_dict_hex(tx)

StateHash(state) == hash_dict_hex(state)

\* State.transfer that reads the receiver's balance before it debits the sender
TransferStaleRead(state, from, to, amount) ==
    IF state[from] < amount
    THEN [ok |-> FALSE, state |-> state]
    ELSE LET debited == [state EXCEPT ![from] = @ - amount]
         IN [ok |-> TRUE, state |-> [debited EXCEPT ![to] = state[to] + amount]]

\* State.transfer: [ok, state]
Transfer(state, from, to, amount) ==
    IF state[from] < amount
    THEN [ok |-> FALSE, state |-> state]
    ELSE LET debited == [state EXCEPT ![from] = @ - amount]
         IN [ok |-> TRUE, state |-> [debited EXCEPT ![to] = @ + amount]]

\* Executor.reset_nonces: processed_nonces.get(a, 0) is 0 for every address
EmptyNonces == [a \in Validators |-> 0]

\* execute_transaction without the nonce comparison
ExecuteTransactionAnyNonce(state, nonces, tx) ==
    IF ~TxVerify(tx) THEN [ok |-> FALSE, state |-> state, nonces |-> nonces]
    ELSE IF state[tx.from_addr] < tx.amount
    THEN [ok |-> FALSE, state |-> state, nonces |-> nonces]
    ELSE [ok |-> TRUE,
          state |-> [[state EXCEPT ![tx.from_addr] = @ - tx.amount]
                        EXCEPT ![tx.to_addr] = @ + tx.amount],
          nonces |-> [nonces EXCEPT ![tx.from_addr] = tx.nonce + 1]]

\* Executor.execute_transaction on a state and the executor's nonce table
ExecuteTransaction(state, nonces, tx) ==
    IF ~TxVerify(tx) THEN [ok |-> FALSE, state |-> state, nonces |-> nonces]
    ELSE IF tx.nonce # nonces[tx.from_addr]
    THEN [ok |-> FALSE, state |-> state, nonces |-> nonces]
    ELSE IF state[tx.from_addr] < tx.amount
    THEN [ok |-> FALSE, state |-> state, nonces |-> nonces]
    ELSE LET t == Transfer(state, tx.from_addr, tx.to_addr, tx.amount)
         IN IF ~t.ok THEN [ok |-> FALSE, state |-> state, nonces |-> nonces]
            ELSE [ok |-> TRUE, state |-> t.state,
                  nonces |-> [nonces EXCEPT ![tx.from_addr] = tx.nonce + 1]]

\* Executor.execute_transactions: [state, nonces, executed]
RECURSIVE ExecuteFrom(_, _, _, _, _)
ExecuteFrom(state, nonces, executed, txs, i) ==
    IF i > Len(txs) THEN [state |-> state, nonces |-> nonces, executed |-> executed]
    ELSE LET r == ExecuteTransaction(state, nonces, txs[i])
         IN ExecuteFrom(r.state, r.nonces,
                        IF r.ok THEN Append(executed, TxHash(txs[i])) ELSE executed,
                        txs, i + 1)
\* execute_transactions that stops at the first transaction that fails
RECURSIVE ExecuteUntilFailureFrom(_, _, _, _, _)
ExecuteUntilFailureFrom(state, nonces, executed, txs, i) ==
    IF i > Len(txs) THEN [state |-> state, nonces |-> nonces, executed |-> executed]
    ELSE LET r == ExecuteTransaction(state, nonces, txs[i])
         IN IF ~r.ok THEN [state |-> state, nonces |-> nonces, executed |-> executed]
            ELSE ExecuteUntilFailureFrom(r.state, r.nonces,
                                         Append(executed, TxHash(txs[i])), txs, i + 1)
ExecuteUntilFailure(state, nonces, txs) ==
    ExecuteUntilFailureFrom(state, nonces, <<>>, txs, 1)

ExecuteTransactions(state, nonces, txs) ==
    ExecuteFrom(state, nonces, <<>>, txs, 1)

(***************************************************************************)
(* consensus: Block, Vote, VoteCollector                                   *)
(***************************************************************************)
BlockHeader(height, parent_hash, state_hash, tx_root, timestamp, proposer) ==
    [height |-> height, parent_hash |-> parent_hash, state_hash |-> state_hash,
     tx_root |-> tx_root, timestamp |-> timestamp, proposer |-> proposer]
HeaderHash(header) == hash_dict_hex(header)
\* Block(header, transactions) after get_hash() has cached block_hash
Block(header, transactions) ==
    [header |-> header, transactions |-> transactions,
     block_hash |-> HeaderHash(header), finalized |-> FALSE]
\* Block.from_dict(block.to_dict()): block_hash and finalized are read from the payload
BlockFromDict(d) ==
    [header |-> d.header, transactions |-> d.transactions,
     block_hash |-> d.block_hash, finalized |-> d.finalized]
MarkFinalized(block) == [block EXCEPT !.finalized = TRUE]
CreateGenesis(initial_state_hash) ==
    Block(BlockHeader(0, ZeroHash, initial_state_hash, ZeroHash, 0, GenesisProposer), <<>>)
ComputeTxRoot(transactions) ==
    hash_dict_hex([i \in 1 .. Len(transactions) |-> TxHash(transactions[i])])

VoteData(vote) == <<vote.vote_type, vote.height, vote.block_hash, vote.validator_address>>
\* Vote(...) followed by sign(keypair)
SignedVote(vote_type, height, block_hash, validator, chain_id, key) ==
    [vote_type |-> vote_type, height |-> height, block_hash |-> block_hash,
     validator_address |-> validator, chain_id |-> chain_id,
     signature |-> Sign(key, "VOTE", chain_id, <<vote_type, height, block_hash, validator>>)]
VoteVerify(vote) ==
    VerifySignature(vote.validator_address, vote.signature, "VOTE", vote.chain_id,
                    VoteData(vote))

NewVoteCollector(total_validators) ==
    [total_validators |-> total_validators, prevotes |-> {}, precommits |-> {}]

\* the voter set prevotes[height][block_hash] (empty when a key is absent)
Voters(votes, height, block_hash) ==
    {e[3] : e \in {x \in votes : x[1] = height /\ x[2] = block_hash}}

\* add_vote without the duplicate checks: every well-signed vote counts as new
AddVoteAlwaysNew(vc, vote) ==
    LET entry == <<vote.height, vote.block_hash, vote.validator_address>>
    IN IF ~VoteVerify(vote) THEN [vote_collector |-> vc, is_new |-> FALSE]
       ELSE IF vote.vote_type = "prevote"
       THEN [vote_collector |-> [vc EXCEPT !.prevotes = @ \cup {entry}], is_new |-> TRUE]
       ELSE [vote_collector |-> [vc EXCEPT !.precommits = @ \cup {entry}], is_new |-> TRUE]

\* VoteCollector.add_vote: [vote_collector, is_new]
AddVote(vc, vote) ==
    LET entry == <<vote.height, vote.block_hash, vote.validator_address>>
    IN IF ~VoteVerify(vote) THEN [vote_collector |-> vc, is_new |-> FALSE]
       ELSE IF vote.vote_type = "prevote"
       THEN IF entry \in vc.prevotes
            THEN [vote_collector |-> vc, is_new |-> FALSE]
            ELSE [vote_collector |-> [vc EXCEPT !.prevotes = @ \cup {entry}],
                  is_new |-> TRUE]
       ELSE IF vote.vote_type = "precommit"
       THEN IF entry \in vc.precommits
            THEN [vote_collector |-> vc, is_new |-> FALSE]
            ELSE [vote_collector |-> [vc EXCEPT !.precommits = @ \cup {entry}],
                  is_new |-> TRUE]
       ELSE [vote_collector |-> vc, is_new |-> FALSE]

\* the quorum test with >= in place of >
AtLeastTwoThirds(count, total_validators) == count >= (2 * total_validators) \div 3

\* count > (2 * self.total_validators) // 3
MoreThanTwoThirds(count, total_validators) == count > (2 * total_validators) \div 3

GetPrevoteCount(vc, height, block_hash) == Cardinality(Voters(vc.prevotes, height, block_hash))
GetPrecommitCount(vc, height, block_hash) == Cardinality(Voters(vc.precommits, height, block_hash))
HasPrevoteMajority(vc, height, block_hash) ==
    MoreThanTwoThirds(GetPrevoteCount(vc, height, block_hash), vc.total_validators)
HasPrecommitMajority(vc, height, block_hash) ==
    MoreThanTwoThirds(GetPrecommitCount(vc, height, block_hash), vc.total_validators)

(***************************************************************************)
(* consensus: ConsensusEngine                                              *)
(***************************************************************************)
EmptyMap == <<>>

\* ConsensusEngine.__init__ followed by initialize_genesis(initial_balances)
NewEngine(chain_id, address, initial_balances) ==
    [chain_id |-> chain_id,
     validator_address |-> address,
     current_height |-> 1,
     current_state |-> initial_balances,
     blockchain |-> <<MarkFinalized(CreateGenesis(StateHash(initial_balances)))>>,
     vote_collector |-> NewVoteCollector(NumValidators),
     pending_blocks |-> EmptyMap,
     pending_votes |-> <<>>,
     prevoted |-> EmptyMap,
     precommitted |-> EmptyMap,
     processed_nonces |-> EmptyNonces]

LastBlock(e) == e.blockchain[Len(e.blockchain)]
HasPending(e, height, block_hash) == <<height, block_hash>> \in DOMAIN e.pending_blocks

\* propose_block that resets the executor's nonce table before it executes
ProposeBlockFreshNonces(e, transactions) ==
    LET r == ExecuteTransactions(e.current_state, EmptyNonces, transactions)
        header == BlockHeader(e.current_height, LastBlock(e).block_hash,
                              StateHash(r.state), ComputeTxRoot(transactions), 0,
                              e.validator_address)
    IN [proposal |-> [block |-> Block(header, transactions),
                      proposer_address |-> e.validator_address],
        engine |-> [e EXCEPT !.processed_nonces = r.nonces]]

\* propose_block that executes on current_state itself instead of on a copy
ProposeBlockInPlace(e, transactions) ==
    LET r == ExecuteTransactions(e.current_state, e.processed_nonces, transactions)
        header == BlockHeader(e.current_height, LastBlock(e).block_hash,
                              StateHash(r.state), ComputeTxRoot(transactions), 0,
                              e.validator_address)
    IN [proposal |-> [block |-> Block(header, transactions),
                      proposer_address |-> e.validator_address],
        engine |-> [e EXCEPT !.processed_nonces = r.nonces, !.current_state = r.state]]

\* ConsensusEngine.propose_block: [proposal, engine]; the executor keeps its nonce table
ProposeBlock(e, transactions) ==
    LET r == ExecuteTransactions(e.current_state, e.processed_nonces, transactions)
        header == BlockHeader(e.current_height, LastBlock(e).block_hash,
                              StateHash(r.state), ComputeTxRoot(transactions), 0,
                              e.validator_address)
    IN [proposal |-> [block |-> Block(header, transactions),
                      proposer_address |-> e.validator_address],
        engine |-> [e EXCEPT !.processed_nonces = r.nonces]]

\* the transactions of a block all verify (the loop of _validate_proposal)
AllTxVerify(transactions) == \A i \in 1 .. Len(transactions) : TxVerify(transactions[i])

\* _validate_proposal without the state-transition check
ValidateProposalNoStateCheck(e, proposal) ==
    LET block == proposal.block
    IN IF block.header.height # e.current_height THEN [ok |-> FALSE, engine |-> e]
       ELSE IF Len(e.blockchain) > 0 /\ block.header.parent_hash # LastBlock(e).block_hash
       THEN [ok |-> FALSE, engine |-> e]
       ELSE IF ~AllTxVerify(block.transactions) THEN [ok |-> FALSE, engine |-> e]
       ELSE [ok |-> TRUE, engine |-> e]

\* ConsensusEngine._validate_proposal: [ok, engine]; resets and reuses the executor
ValidateProposal(e, proposal) ==
    LET block == proposal.block
    IN IF block.header.height # e.current_height THEN [ok |-> FALSE, engine |-> e]
       ELSE IF Len(e.blockchain) > 0 /\ block.header.parent_hash # LastBlock(e).block_hash
       THEN [ok |-> FALSE, engine |-> e]
       ELSE IF ~AllTxVerify(block.transactions) THEN [ok |-> FALSE, engine |-> e]
       ELSE LET r == ExecuteTransactions(e.current_state, EmptyNonces, block.transactions)
            IN [ok |-> StateHash(r.state) = block.header.state_hash,
                engine |-> [e EXCEPT !.processed_nonces = r.nonces]]

\* _send_prevote without the "already prevoted at this height" return
SendPrevoteAgain(e, height, block_hash) ==
    LET vote == SignedVote("prevote", height, block_hash, e.validator_address,
                           e.chain_id, e.validator_address)
    IN [e EXCEPT !.prevoted = (height :> block_hash) @@ @,
                 !.vote_collector = AddVote(@, vote).vote_collector]

\* ConsensusEngine._send_prevote
SendPrevote(e, height, block_hash) ==
    IF height \in DOMAIN e.prevoted THEN e
    ELSE LET vote == SignedVote("prevote", height, block_hash, e.validator_address,
                                e.chain_id, e.validator_address)
         IN [e EXCEPT !.prevoted = (height :> block_hash) @@ @,
                      !.vote_collector = AddVote(@, vote).vote_collector]

\* ConsensusEngine._send_precommit
SendPrecommit(e, height, block_hash) ==
    IF height \in DOMAIN e.precommitted THEN e
    ELSE LET vote == SignedVote("precommit", height, block_hash, e.validator_address,
                                e.chain_id, e.validator_address)
         IN [e EXCEPT !.precommitted = (height :> block_hash) @@ @,
                      !.vote_collector = AddVote(@, vote).vote_collector]

\* _finalize_block that puts the block in the place of the chain's last entry
FinalizeBlockReplacing(e, height, block_hash) ==
    IF ~HasPending(e, height, block_hash) THEN e
    ELSE LET block == e.pending_blocks[<<height, block_hash>>]
         IN IF block.finalized THEN e
            ELSE LET r == ExecuteTransactions(e.current_state, EmptyNonces,
                                              block.transactions)
                 IN [e EXCEPT !.pending_blocks[<<height, block_hash>>] = MarkFinalized(block),
                              !.blockchain = [@ EXCEPT ![Len(@)] = MarkFinalized(block)],
                              !.current_state = r.state,
                              !.current_height = @ + 1,
                              !.processed_nonces = r.nonces]

\* _finalize_block without the increment of current_height
FinalizeBlockSameHeight(e, height, block_hash) ==
    IF ~HasPending(e, height, block_hash) THEN e
    ELSE LET block == e.pending_blocks[<<height, block_hash>>]
         IN IF block.finalized THEN e
            ELSE LET r == ExecuteTransactions(e.current_state, EmptyNonces,
                                              block.transactions)
                 IN [e EXCEPT !.pending_blocks[<<height, block_hash>>] = MarkFinalized(block),
                              !.blockchain = Append(@, MarkFinalized(block)),
                              !.current_state = r.state,
                              !.processed_nonces = r.nonces]

\* ConsensusEngine._finalize_block
FinalizeBlock(e, height, block_hash) ==
    IF ~HasPending(e, height, block_hash) THEN e
    ELSE LET block == e.pending_blocks[<<height, block_hash>>]
         IN IF block.finalized THEN e
            ELSE LET r == ExecuteTransactions(e.current_state, EmptyNonces,
                                              block.transactions)
                 IN [e EXCEPT !.pending_blocks[<<height, block_hash>>] = MarkFinalized(block),
                              !.blockchain = Append(@, MarkFinalized(block)),
                              !.current_state = r.state,
                              !.current_height = @ + 1,
                              !.processed_nonces = r.nonces]

\* _check_phase_transitions that never sends the precommit
CheckPhaseTransitionsNoPrecommit(e, height, block_hash) ==
    IF HasPrecommitMajority(e.vote_collector, height, block_hash)
    THEN FinalizeBlock(e, height, block_hash)
    ELSE e

\* _check_phase_transitions that precommits without asking for the prevote quorum
CheckPhaseTransitionsEager(e, height, block_hash) ==
    LET e1 == IF height \notin DOMAIN e.precommitted
              THEN SendPrecommit(e, height, block_hash)
              ELSE e
    IN IF HasPrecommitMajority(e1.vote_collector, height, block_hash)
       THEN FinalizeBlock(e1, height, block_hash)
       ELSE e1

\* ConsensusEngine._check_phase_transitions
CheckPhaseTransitions(e, height, block_hash) ==
    LET e1 == IF /\ height \notin DOMAIN e.precommitted
                 /\ HasPrevoteMajority(e.vote_collector, height, block_hash)
              THEN SendPrecommit(e, height, block_hash)
              ELSE e
    IN IF HasPrecommitMajority(e1.vote_collector, height, block_hash)
       THEN FinalizeBlock(e1, height, block_hash)
       ELSE e1

\* ConsensusEngine.receive_vote
ReceiveVote(e, vote) ==
    IF ~VoteVerify(vote) THEN e
    ELSE IF ~HasPending(e, vote.height, vote.block_hash)
    THEN [e EXCEPT !.pending_votes = Append(@, vote)]
    ELSE LET r == AddVote(e.vote_collector, vote)
         IN IF ~r.is_new THEN e
            ELSE CheckPhaseTransitions([e EXCEPT !.vote_collector = r.vote_collector],
                                       vote.height, vote.block_hash)

RECURSIVE ReceiveVotesFrom(_, _, _)
ReceiveVotesFrom(e, votes, i) ==
    IF i > Len(votes) THEN e
    ELSE ReceiveVotesFrom(ReceiveVote(e, votes[i]), votes, i + 1)

\* _process_pending_votes that forgets the buffered votes of a known block
ProcessPendingVotesDropping(e) ==
    LET Unknown(v) == ~HasPending(e, v.height, v.block_hash)
    IN [e EXCEPT !.pending_votes = SelectSeq(e.pending_votes, Unknown)]

\* ConsensusEngine._process_pending_votes
ProcessPendingVotes(e) ==
    LET Known(v) == HasPending(e, v.height, v.block_hash)
        Unknown(v) == ~HasPending(e, v.height, v.block_hash)
        processed == SelectSeq(e.pending_votes, Known)
        e1 == ReceiveVotesFrom(e, processed, 1)
    IN [e1 EXCEPT !.pending_votes = SelectSeq(e.pending_votes, Unknown)]

\* ConsensusEngine.receive_proposal
ReceiveProposal(e, proposal) ==
    LET block == proposal.block
        height == block.header.height
        block_hash == block.block_hash
        stored == [e EXCEPT !.pending_blocks = (<<height, block_hash>> :> block) @@ @]
        v == ValidateProposal(stored, proposal)
        voted == IF v.ok THEN SendPrevote(v.engine, height, block_hash) ELSE v.engine
    IN ProcessPendingVotes(voted)

(***************************************************************************)
(* network: UnreliableNetwork                                              *)
(***************************************************************************)
SameMessage(a, b) ==
    /\ a.sender = b.sender /\ a.receiver = b.receiver
    /\ a.message_type = b.message_type /\ a.payload = b.payload

\* message_queue.append(msg): the queue is a list, so equal messages are kept apart
Enqueue(queue, msg) ==
    LET used == {m.copy : m \in {x \in queue : SameMessage(x, msg)}}
        copy == CHOOSE c \in 0 .. Cardinality(queue) : c \notin used
    IN queue \cup {[msg EXCEPT !.copy = copy]}

NetworkMessage(sender, receiver, message_type, payload) ==
    [sender |-> sender, receiver |-> receiver, message_type |-> message_type,
     payload |-> payload, copy |-> 0]

\* UnreliableNetwork.broadcast_message over all_validators, skipping the sender
RECURSIVE BroadcastFrom(_, _, _, _, _)
BroadcastFrom(queue, sender, message_type, payload, i) ==
    IF i > Len(all_validators) THEN queue
    ELSE BroadcastFrom(
            IF all_validators[i] # sender
            THEN Enqueue(queue, NetworkMessage(sender, all_validators[i], message_type, payload))
            ELSE queue,
            sender, message_type, payload, i + 1)
BroadcastMessage(queue, sender, message_type, payload) ==
    BroadcastFrom(queue, sender, message_type, payload, 1)

\* UnreliableNetwork.__init__: the clock and the rate-limit fields; last_sender is
\* history, the sender of the last send_message call
NewLimiter ==
    [simulation_time |-> 0, send_rate_limit |-> EmptyMap, blocked_peers |-> {},
     peer_block_until |-> EmptyMap, rate_limited_drops |-> 0, last_sender |-> 0 - 1]

\* _check_rate_limit that blocks one message late
CheckRateLimitLate(net, sender) ==
    LET t == net.simulation_time
        kept == [k \in DOMAIN net.peer_block_until \ {sender} |-> net.peer_block_until[k]]
        n1 == IF sender \in DOMAIN net.peer_block_until
              THEN [net EXCEPT !.peer_block_until = kept, !.blocked_peers = @ \ {sender}]
              ELSE net
    IN IF sender \in DOMAIN net.peer_block_until /\ t < net.peer_block_until[sender]
       THEN [allowed |-> FALSE, limiter |-> [net EXCEPT !.rate_limited_drops = @ + 1]]
       ELSE IF sender \notin DOMAIN n1.send_rate_limit
       THEN [allowed |-> TRUE,
             limiter |-> [n1 EXCEPT !.send_rate_limit = (sender :> <<1, t>>) @@ @]]
       ELSE IF t - n1.send_rate_limit[sender][2] > RateWindow
       THEN [allowed |-> TRUE,
             limiter |-> [n1 EXCEPT !.send_rate_limit = (sender :> <<1, t>>) @@ @]]
       ELSE IF n1.send_rate_limit[sender][1] > max_sends_per_second
       THEN [allowed |-> FALSE,
             limiter |-> [n1 EXCEPT !.blocked_peers = @ \cup {sender},
                                    !.peer_block_until = (sender :> t + block_duration) @@ @,
                                    !.rate_limited_drops = @ + 1]]
       ELSE [allowed |-> TRUE,
             limiter |-> [n1 EXCEPT !.send_rate_limit =
                            (sender :> <<n1.send_rate_limit[sender][1] + 1,
                                         n1.send_rate_limit[sender][2]>>) @@ @]]

\* _check_rate_limit that keeps the old window when a block has expired
CheckRateLimitOldWindow(net, sender) ==
    LET t == net.simulation_time
        kept == [k \in DOMAIN net.peer_block_until \ {sender} |-> net.peer_block_until[k]]
        n1 == IF sender \in DOMAIN net.peer_block_until
              THEN [net EXCEPT !.peer_block_until = kept, !.blocked_peers = @ \ {sender}]
              ELSE net
    IN IF sender \in DOMAIN net.peer_block_until /\ t < net.peer_block_until[sender]
       THEN [allowed |-> FALSE, limiter |-> [net EXCEPT !.rate_limited_drops = @ + 1]]
       ELSE IF sender \notin DOMAIN n1.send_rate_limit
       THEN [allowed |-> TRUE,
             limiter |-> [n1 EXCEPT !.send_rate_limit = (sender :> <<1, t>>) @@ @]]
       ELSE IF n1.send_rate_limit[sender][1] >= max_sends_per_second
       THEN [allowed |-> FALSE,
             limiter |-> [n1 EXCEPT !.blocked_peers = @ \cup {sender},
                                    !.peer_block_until = (sender :> t + block_duration) @@ @,
                                    !.rate_limited_drops = @ + 1]]
       ELSE [allowed |-> TRUE,
             limiter |-> [n1 EXCEPT !.send_rate_limit =
                            (sender :> <<n1.send_rate_limit[sender][1] + 1,
                                         n1.send_rate_limit[sender][2]>>) @@ @]]

\* UnreliableNetwork._check_rate_limit: [allowed, limiter]
CheckRateLimit(net, sender) ==
    LET t == net.simulation_time
        kept == [k \in DOMAIN net.peer_block_until \ {sender} |-> net.peer_block_until[k]]
        \* the block has expired: del peer_block_until[sender], blocked_peers.discard
        n1 == IF sender \in DOMAIN net.peer_block_until
              THEN [net EXCEPT !.peer_block_until = kept, !.blocked_peers = @ \ {sender}]
              ELSE net
    IN IF sender \in DOMAIN net.peer_block_until /\ t < net.peer_block_until[sender]
       THEN [allowed |-> FALSE, limiter |-> [net EXCEPT !.rate_limited_drops = @ + 1]]
       ELSE IF sender \notin DOMAIN n1.send_rate_limit
       THEN [allowed |-> TRUE,
             limiter |-> [n1 EXCEPT !.send_rate_limit = (sender :> <<1, t>>) @@ @]]
       ELSE IF t - n1.send_rate_limit[sender][2] > RateWindow
       THEN [allowed |-> TRUE,
             limiter |-> [n1 EXCEPT !.send_rate_limit = (sender :> <<1, t>>) @@ @]]
       ELSE IF n1.send_rate_limit[sender][1] >= max_sends_per_second
       THEN [allowed |-> FALSE,
             limiter |-> [n1 EXCEPT !.blocked_peers = @ \cup {sender},
                                    !.peer_block_until = (sender :> t + block_duration) @@ @,
                                    !.rate_limited_drops = @ + 1]]
       ELSE [allowed |-> TRUE,
             limiter |-> [n1 EXCEPT !.send_rate_limit =
                            (sender :> <<n1.send_rate_limit[sender][1] + 1,
                                         n1.send_rate_limit[sender][2]>>) @@ @]]

(***************************************************************************)
(* node: BlockchainNode                                                    *)
(***************************************************************************)
VoteId(vote_type, height, block_hash, address) == <<vote_type, height, block_hash, address>>

\* _broadcast_votes_for_height without the sent_votes lookup
BroadcastVotesAlways(e, sent, queue, height) ==
    LET address == e.validator_address
        pv == height \in DOMAIN e.prevoted
        q1 == IF pv
              THEN BroadcastMessage(queue, address, "VOTE",
                       SignedVote("prevote", height, e.prevoted[height], address,
                                  e.chain_id, address))
              ELSE queue
        s1 == IF pv THEN sent \cup {VoteId("prevote", height, e.prevoted[height], address)}
              ELSE sent
        pc == height \in DOMAIN e.precommitted
        q2 == IF pc
              THEN BroadcastMessage(q1, address, "VOTE",
                       SignedVote("precommit", height, e.precommitted[height], address,
                                  e.chain_id, address))
              ELSE q1
        s2 == IF pc THEN s1 \cup {VoteId("precommit", height, e.precommitted[height], address)}
              ELSE s1
    IN [queue |-> q2, sent_votes |-> s2]

\* BlockchainNode._broadcast_votes_for_height: [queue, sent_votes]
BroadcastVotesForHeight(e, sent, queue, height) ==
    LET address == e.validator_address
        pv == height \in DOMAIN e.prevoted
              /\ VoteId("prevote", height, e.prevoted[height], address) \notin sent
        q1 == IF pv
              THEN BroadcastMessage(queue, address, "VOTE",
                       SignedVote("prevote", height, e.prevoted[height], address,
                                  e.chain_id, address))
              ELSE queue
        s1 == IF pv THEN sent \cup {VoteId("prevote", height, e.prevoted[height], address)}
              ELSE sent
        pc == height \in DOMAIN e.precommitted
              /\ VoteId("precommit", height, e.precommitted[height], address) \notin s1
        q2 == IF pc
              THEN BroadcastMessage(q1, address, "VOTE",
                       SignedVote("precommit", height, e.precommitted[height], address,
                                  e.chain_id, address))
              ELSE q1
        s2 == IF pc THEN s1 \cup {VoteId("precommit", height, e.precommitted[height], address)}
              ELSE s1
    IN [queue |-> q2, sent_votes |-> s2]

\* BlockProposal.to_dict() read back by BlockProposal.from_dict()
ProposalFromDict(payload) ==
    [block |-> BlockFromDict(payload.block), proposer_address |-> payload.proposer_address]

\* leader selection without the shift by one
LeaderByHeight(height) == all_validators[(height % Len(all_validators)) + 1]

\* the leader of a height: all_validators[(height - 1) % len(all_validators)]
Leader(height) == all_validators[((height - 1) % Len(all_validators)) + 1]

InitialBalances == [a \in Validators |-> GenesisBalance]

RECURSIVE PoolSizes(_, _)
PoolSizes(pools, n) == IF n < 0 THEN 0 ELSE Len(pools[n]) + PoolSizes(pools, n - 1)
\* the transactions submitted so far (before the loop the pools hold nothing else)
Submitted == PoolSizes(tx_pool, NumValidators - 1)

EngineUnchanged == UNCHANGED <<calls, buffered_votes>>
ExecutorUnchanged == UNCHANGED <<executor, exec_call>>
GossipUnchanged == UNCHANGED <<accepted_headers, requested_bodies, pending_block_bodies>>
CollectorUnchanged == UNCHANGED <<collector, last_vote, last_result>>

\* BlockchainNode.create_transaction followed by submit_transaction, before the loop starts
SubmitTransaction(n) ==
    /\ phase = "setup"
    /\ Submitted < MaxSubmit
    /\ \E amount \in 1 .. GenesisBalance :
         LET nonce == Len(SelectSeq(tx_pool[n], LAMBDA t : t.from_addr = n))
             tx == SignedTx(n, all_validators[((n + 1) % NumValidators) + 1], amount, nonce,
                            ChainId, n)
         IN /\ TxVerify(tx)
            /\ tx_pool' = [tx_pool EXCEPT ![n] = Append(@, tx)]
            /\ message_queue' = BroadcastMessage(message_queue, n, "TRANSACTION", tx)
    /\ UNCHANGED <<consensus, sent_votes, inboxes, phase, turn, dropped_count,
                   duplicated_count, validated>>
    /\ EngineUnchanged /\ CollectorUnchanged /\ ExecutorUnchanged /\ UNCHANGED limiter /\ GossipUnchanged

\* the driver enters its loop
StartRun ==
    /\ phase = "setup"
    /\ phase' = "net"
    /\ UNCHANGED <<consensus, tx_pool, sent_votes, message_queue, inboxes, turn,
                   dropped_count, duplicated_count, validated>>
    /\ EngineUnchanged /\ CollectorUnchanged /\ ExecutorUnchanged /\ UNCHANGED limiter /\ GossipUnchanged

\* UnreliableNetwork.send_message: the packet-loss branch, for one message of the round
DropMessage ==
    /\ phase = "net"
    /\ dropped_count + duplicated_count < MaxFaults
    /\ \E m \in message_queue :
         /\ message_queue' = message_queue \ {m}
         /\ dropped_count' = dropped_count + 1
    /\ UNCHANGED <<consensus, tx_pool, sent_votes, inboxes, phase, turn,
                   duplicated_count, validated>>
    /\ EngineUnchanged /\ CollectorUnchanged /\ ExecutorUnchanged /\ UNCHANGED limiter /\ GossipUnchanged

\* UnreliableNetwork.send_message: the duplication branch, for one message of the round
DuplicateMessage ==
    /\ phase = "net"
    /\ dropped_count + duplicated_count < MaxFaults
    /\ \E m \in message_queue :
         /\ message_queue' = Enqueue(message_queue, m)
         /\ duplicated_count' = duplicated_count + 1
    /\ UNCHANGED <<consensus, tx_pool, sent_votes, inboxes, phase, turn,
                   dropped_count, validated>>
    /\ EngineUnchanged /\ CollectorUnchanged /\ ExecutorUnchanged /\ UNCHANGED limiter /\ GossipUnchanged

\* UnreliableNetwork.tick: every queued message is due and moves to its receiver's inbox
DeliverQueued ==
    /\ phase = "net"
    /\ inboxes' = [r \in Validators |->
                      inboxes[r] \cup {m \in message_queue : m.receiver = r}]
    /\ message_queue' = {}
    /\ phase' = "node"
    /\ turn' = 0
    /\ UNCHANGED <<consensus, tx_pool, sent_votes, dropped_count, duplicated_count,
                   validated, buffered_votes>>
    /\ CollectorUnchanged /\ ExecutorUnchanged /\ UNCHANGED limiter /\ GossipUnchanged

\* network.tick(dt) of a driver that runs until nothing is left to do
NetworkTick == DeliverQueued /\ UNCHANGED calls

\* BlockchainNode.tick, one iteration of its loop: the inbox was shuffled, so any
\* message of the inbox may be the next one
HandleProposal(n, m) ==
    /\ m.message_type = "BLOCK_PROPOSAL"
    /\ LET proposal == ProposalFromDict(m.payload)
           e == ReceiveProposal(consensus[n], proposal)
           b == BroadcastVotesForHeight(e, sent_votes[n], message_queue,
                                        proposal.block.header.height)
       IN /\ consensus' = [consensus EXCEPT ![n] = e]
          /\ validated' = [validated EXCEPT ![n] =
                IF ValidateProposal(consensus[n], proposal).ok
                THEN @ \cup {proposal.block.block_hash} ELSE @]
          /\ message_queue' = b.queue
          /\ sent_votes' = [sent_votes EXCEPT ![n] = b.sent_votes]
    /\ UNCHANGED tx_pool
    /\ GossipUnchanged

HandleVote(n, m) ==
    /\ m.message_type = "VOTE"
    /\ LET vote == m.payload
           vote_id == VoteId(vote.vote_type, vote.height, vote.block_hash,
                             vote.validator_address)
       IN IF vote_id \in sent_votes[n]
          THEN UNCHANGED <<consensus, message_queue, sent_votes>>
          ELSE LET e == ReceiveVote(consensus[n], vote)
                   b == BroadcastVotesForHeight(e, sent_votes[n], message_queue, vote.height)
               IN /\ consensus' = [consensus EXCEPT ![n] = e]
                  /\ message_queue' = b.queue
                  /\ sent_votes' = [sent_votes EXCEPT ![n] = b.sent_votes]
    /\ UNCHANGED <<tx_pool, validated>>
    /\ GossipUnchanged

HandleTransaction(n, m) ==
    /\ m.message_type = "TRANSACTION"
    /\ tx_pool' = [tx_pool EXCEPT ![n] = IF TxVerify(m.payload) THEN Append(@, m.payload) ELSE @]
    /\ UNCHANGED <<consensus, message_queue, sent_votes, validated>>
    /\ GossipUnchanged

\* _handle_block_header without the height check
HandleBlockHeaderAnyHeight(n, m) ==
    /\ m.message_type = "BLOCK_HEADER"
    /\ LET e == consensus[n]
           header == m.payload.header
           block_hash == m.payload.block_hash
       IN IF Len(e.blockchain) > 0 /\ header.parent_hash # LastBlock(e).block_hash
          THEN UNCHANGED <<accepted_headers, requested_bodies, message_queue>>
          ELSE /\ accepted_headers' = [accepted_headers EXCEPT ![n] = @ \cup {block_hash}]
               /\ IF block_hash \notin requested_bodies[n]
                  THEN /\ requested_bodies' =
                            [requested_bodies EXCEPT ![n] = @ \cup {block_hash}]
                       /\ message_queue' =
                            Enqueue(message_queue,
                                    NetworkMessage(n, m.payload.proposer_address,
                                                   "BLOCK_BODY_REQUEST",
                                                   [block_hash |-> block_hash]))
                  ELSE UNCHANGED <<requested_bodies, message_queue>>
    /\ UNCHANGED <<consensus, tx_pool, sent_votes, validated, pending_block_bodies>>

\* BlockchainNode._handle_block_header
HandleBlockHeader(n, m) ==
    /\ m.message_type = "BLOCK_HEADER"
    /\ LET e == consensus[n]
           header == m.payload.header
           block_hash == m.payload.block_hash
       IN IF header.height # e.current_height
          THEN UNCHANGED <<accepted_headers, requested_bodies, message_queue>>
          ELSE IF Len(e.blockchain) > 0 /\ header.parent_hash # LastBlock(e).block_hash
          THEN UNCHANGED <<accepted_headers, requested_bodies, message_queue>>
          ELSE /\ accepted_headers' = [accepted_headers EXCEPT ![n] = @ \cup {block_hash}]
               /\ IF block_hash \notin requested_bodies[n]
                  THEN /\ requested_bodies' =
                            [requested_bodies EXCEPT ![n] = @ \cup {block_hash}]
                       /\ message_queue' =
                            Enqueue(message_queue,
                                    NetworkMessage(n, m.payload.proposer_address,
                                                   "BLOCK_BODY_REQUEST",
                                                   [block_hash |-> block_hash]))
                  ELSE UNCHANGED <<requested_bodies, message_queue>>
    /\ UNCHANGED <<consensus, tx_pool, sent_votes, validated, pending_block_bodies>>

\* BlockchainNode._handle_block_body_request
HandleBlockBodyRequest(n, m) ==
    /\ m.message_type = "BLOCK_BODY_REQUEST"
    /\ LET block_hash == m.payload.block_hash
       IN IF block_hash \notin DOMAIN pending_block_bodies[n]
          THEN UNCHANGED message_queue
          ELSE message_queue' =
                  Enqueue(message_queue,
                          NetworkMessage(n, m.sender, "BLOCK_BODY",
                                         [block_hash |-> block_hash,
                                          transactions |-> pending_block_bodies[n][block_hash]]))
    /\ UNCHANGED <<consensus, tx_pool, sent_votes, validated>>
    /\ GossipUnchanged

\* _handle_block_body that lets the engine precommit the block whose body arrived
HandleBlockBodyPrecommitting(n, m) ==
    /\ m.message_type = "BLOCK_BODY"
    /\ consensus' = [consensus EXCEPT ![n] =
          IF m.payload.block_hash \in accepted_headers[n]
          THEN SendPrecommit(@, @.current_height, m.payload.block_hash) ELSE @]
    /\ UNCHANGED <<tx_pool, sent_votes, validated, message_queue>>
    /\ GossipUnchanged

\* BlockchainNode._handle_block_body: both branches return without touching the node
HandleBlockBody(n, m) ==
    /\ m.message_type = "BLOCK_BODY"
    /\ UNCHANGED <<consensus, tx_pool, sent_votes, validated, message_queue>>
    /\ GossipUnchanged

HandleMessage ==
    /\ phase = "node"
    /\ \E m \in inboxes[turn] :
         /\ inboxes' = [inboxes EXCEPT ![turn] = @ \ {m}]
         /\ \/ HandleBlockHeader(turn, m)
            \/ HandleBlockBodyRequest(turn, m)
            \/ HandleBlockBody(turn, m)
            \/ HandleProposal(turn, m)
            \/ HandleVote(turn, m)
            \/ HandleTransaction(turn, m)
    /\ UNCHANGED <<phase, turn, dropped_count, duplicated_count>>
    /\ EngineUnchanged /\ CollectorUnchanged /\ ExecutorUnchanged /\ UNCHANGED limiter

\* BlockchainNode.propose_block_if_leader, the last step of tick()
ProposeBlockIfLeader(n) ==
    LET e0 == consensus[n]
    IN IF /\ Leader(e0.current_height) = e0.validator_address
          /\ Len(tx_pool[n]) > 0
          /\ e0.current_height <= MaxHeight
       THEN LET p == ProposeBlock(e0, tx_pool[n])
                payload == p.proposal
                block_hash == p.proposal.block.block_hash
                q0 == BroadcastMessage(message_queue, n, "BLOCK_HEADER",
                          [header |-> p.proposal.block.header,
                           proposer_address |-> p.proposal.proposer_address,
                           block_hash |-> block_hash])
                q1 == BroadcastMessage(q0, n, "BLOCK_PROPOSAL", payload)
                e == ReceiveProposal(p.engine, p.proposal)
                height == p.proposal.block.header.height
                b == IF height \in DOMAIN e.prevoted
                     THEN BroadcastVotesForHeight(e, sent_votes[n], q1, height)
                     ELSE [queue |-> q1, sent_votes |-> sent_votes[n]]
            IN /\ consensus' = [consensus EXCEPT ![n] = e]
               /\ validated' = [validated EXCEPT ![n] =
                     IF ValidateProposal(p.engine, p.proposal).ok
                     THEN @ \cup {p.proposal.block.block_hash} ELSE @]
               /\ message_queue' = b.queue
               /\ sent_votes' = [sent_votes EXCEPT ![n] = b.sent_votes]
               /\ tx_pool' = [tx_pool EXCEPT ![n] = <<>>]
               /\ pending_block_bodies' = [pending_block_bodies EXCEPT ![n] =
                     (block_hash :> p.proposal.block.transactions) @@ @]
               /\ accepted_headers' = [accepted_headers EXCEPT ![n] = @ \cup {block_hash}]
               /\ UNCHANGED requested_bodies
       ELSE /\ UNCHANGED <<consensus, validated, message_queue, sent_votes, tx_pool>>
            /\ GossipUnchanged

\* the end of a node's tick(): its inbox is drained, it proposes if it leads, and the
\* driver moves to the next node (or back to network.tick after the last one)
EndTick ==
    /\ phase = "node"
    /\ inboxes[turn] = {}
    /\ ProposeBlockIfLeader(turn)
    /\ IF turn = NumValidators - 1
       THEN phase' = "net" /\ turn' = 0
       ELSE phase' = "node" /\ turn' = turn + 1
    /\ UNCHANGED <<inboxes, dropped_count, duplicated_count>>
    /\ EngineUnchanged /\ CollectorUnchanged /\ ExecutorUnchanged /\ UNCHANGED limiter

CollectorIdle ==
    /\ collector = NewVoteCollector(NumValidators)
    /\ last_vote = SignedVote("prevote", 0, ZeroHash, 0, ChainId, 0)
    /\ last_result = FALSE

\* no call has been made yet on the executor under test, which works on State `state`
NoCall(state) == [op |-> "none", state |-> state]
ExecutorIdle ==
    /\ executor = EmptyNonces
    /\ exec_call = NoCall(InitialBalances)

Init ==
    /\ consensus = [n \in Validators |-> NewEngine(ChainId, n, InitialBalances)]
    /\ tx_pool = [n \in Validators |-> <<>>]
    /\ sent_votes = [n \in Validators |-> {}]
    /\ accepted_headers = [n \in Validators |-> {}]
    /\ requested_bodies = [n \in Validators |-> {}]
    /\ pending_block_bodies = [n \in Validators |-> EmptyMap]
    /\ message_queue = {}
    /\ inboxes = [n \in Validators |-> {}]
    /\ phase = "setup"
    /\ turn = 0
    /\ dropped_count = 0
    /\ duplicated_count = 0
    /\ validated = [n \in Validators |-> {}]
    /\ calls = 0
    /\ buffered_votes = {}
    /\ limiter = NewLimiter
    /\ ExecutorIdle
    /\ CollectorIdle

Next ==
    \/ \E n \in Validators : SubmitTransaction(n)
    \/ StartRun
    \/ DropMessage
    \/ DuplicateMessage
    \/ NetworkTick
    \/ HandleMessage
    \/ EndTick

Spec == Init /\ [][Next]_vars

\* the chains of the nodes
Chain(n) == consensus[n].blockchain

(***************************************************************************)
(* SpecSingle: test_single_block_finalization, a reliable network without  *)
(* delays, four validators with balance 1000, validator 0 submits one      *)
(* transfer of 50 to validator 1, and the loop runs MaxTicks iterations    *)
(***************************************************************************)
SingleBalances == [a \in Validators |-> SingleBalance]
\* nodes[0].create_transaction(nodes[1].address, 50)
SingleTx == SignedTx(0, 1, SingleAmount, 0, ChainId, 0)

\* network.tick(0.01) of the loop `for t in range(...)`; calls counts the iterations
CountedNetworkTick ==
    /\ calls < MaxTicks
    /\ DeliverQueued
    /\ calls' = calls + 1

\* the state when the loop starts: genesis initialised, the transaction submitted
InitSingle ==
    /\ consensus = [n \in Validators |-> NewEngine(ChainId, n, SingleBalances)]
    /\ tx_pool = [n \in Validators |-> IF n = 0 THEN <<SingleTx>> ELSE <<>>]
    /\ sent_votes = [n \in Validators |-> {}]
    /\ accepted_headers = [n \in Validators |-> {}]
    /\ requested_bodies = [n \in Validators |-> {}]
    /\ pending_block_bodies = [n \in Validators |-> EmptyMap]
    /\ message_queue = BroadcastMessage({}, 0, "TRANSACTION", SingleTx)
    /\ inboxes = [n \in Validators |-> {}]
    /\ phase = "net"
    /\ turn = 0
    /\ dropped_count = 0
    /\ duplicated_count = 0
    /\ validated = [n \in Validators |-> {}]
    /\ calls = 0
    /\ buffered_votes = {}
    /\ limiter = NewLimiter
    /\ ExecutorIdle
    /\ CollectorIdle

NextSingle ==
    \/ CountedNetworkTick
    \/ HandleMessage
    \/ EndTick

SpecSingle == InitSingle /\ [][NextSingle]_vars

\* the loop never pauses: network.tick and every node.tick run one after the other
\* and every node.tick() returns: it drains a finite inbox and proposes at most once
SpecSingleLive ==
    SpecSingle /\ WF_vars(CountedNetworkTick) /\ ((phase = "node") ~> (phase = "net"))

(***************************************************************************)
(* SpecEngine: the engine of validator 0 under any bounded sequence of     *)
(* receive_proposal and receive_vote calls                                 *)
(***************************************************************************)
Tx0 == SignedTx(0, 1, 1, 0, ChainId, 0)
Tx1 == SignedTx(1, 2, 1, 0, ChainId, 1)
\* Tx0 with its signature made by another key
BadSigTx == SignedTx(0, 1, 1, 0, ChainId, 1)

GenesisBlock == MarkFinalized(CreateGenesis(StateHash(InitialBalances)))
StateAfter(state, txs) == ExecuteTransactions(state, EmptyNonces, txs).state

\* a well-formed block on top of a parent block, as an honest proposer builds it
BlockOn(height, parent_hash, state, txs, proposer) ==
    Block(BlockHeader(height, parent_hash, StateHash(StateAfter(state, txs)),
                      ComputeTxRoot(txs), 0, proposer), txs)

CandValid == BlockOn(1, GenesisBlock.block_hash, InitialBalances, <<Tx0>>, Leader(1))
CandAlt == BlockOn(1, GenesisBlock.block_hash, InitialBalances, <<Tx1>>, Leader(1))
CandNext == BlockOn(2, CandValid.block_hash, StateAfter(InitialBalances, <<Tx0>>),
                    <<Tx1>>, Leader(2))
CandWrongParent == BlockOn(1, ZeroHash, InitialBalances, <<Tx0>>, Leader(1))
CandWrongState ==
    Block(BlockHeader(1, GenesisBlock.block_hash, StateHash(InitialBalances),
                      ComputeTxRoot(<<Tx0>>), 0, Leader(1)), <<Tx0>>)
CandBadSig == BlockOn(1, GenesisBlock.block_hash, InitialBalances, <<BadSigTx>>, Leader(1))

CandidateBlocks == {CandValid, CandAlt, CandNext, CandWrongParent, CandWrongState, CandBadSig}

\* BlockProposal(block, proposer).to_dict() as it travels in a BLOCK_PROPOSAL payload
ProposalInputs ==
    {[block |-> b, proposer_address |-> b.header.proposer] : b \in CandidateBlocks}

OtherValidators == Validators \ {0}
\* the blocks that the votes fed to the engine refer to
VotedBlocks == {CandValid, CandNext}
\* votes of the other validators, well signed, and one of each kind whose signature
\* was made for another chain
VoteInputs ==
    {SignedVote(t, b.header.height, b.block_hash, v, ChainId, v) :
        t \in {"prevote", "precommit"}, b \in VotedBlocks, v \in OtherValidators}
    \cup
    {[SignedVote(t, 1, CandValid.block_hash, 1, OtherChainId, 1) EXCEPT !.chain_id = ChainId] :
        t \in {"prevote", "precommit"}}

\* receive_vote appends the vote to pending_votes: well signed, block not yet known
Buffers(e, vote) == VoteVerify(vote) /\ ~HasPending(e, vote.height, vote.block_hash)

NodesUnchanged ==
    UNCHANGED <<tx_pool, sent_votes, accepted_headers, requested_bodies,
                pending_block_bodies, message_queue, inboxes, phase, turn,
                dropped_count, duplicated_count>>

EngineReceiveProposal ==
    /\ phase = "engine"
    /\ calls < MaxCalls
    /\ \E payload \in ProposalInputs :
         LET proposal == ProposalFromDict(payload)
         IN /\ consensus' = [consensus EXCEPT ![0] = ReceiveProposal(@, proposal)]
            /\ validated' = [validated EXCEPT ![0] =
                  IF ValidateProposal(consensus[0], proposal).ok
                  THEN @ \cup {proposal.block.block_hash} ELSE @]
    /\ calls' = calls + 1
    /\ UNCHANGED buffered_votes
    /\ NodesUnchanged /\ CollectorUnchanged /\ ExecutorUnchanged /\ UNCHANGED limiter

EngineReceiveVote ==
    /\ phase = "engine"
    /\ calls < MaxCalls
    /\ \E vote \in VoteInputs :
         /\ \/ HasPending(consensus[0], vote.height, vote.block_hash)
            \/ Len(consensus[0].pending_votes) < MaxPendingVotes
         /\ consensus' = [consensus EXCEPT ![0] = ReceiveVote(@, vote)]
         /\ buffered_votes' = IF Buffers(consensus[0], vote)
                              THEN buffered_votes \cup {VoteData(vote)} ELSE buffered_votes
    /\ calls' = calls + 1
    /\ UNCHANGED validated
    /\ NodesUnchanged /\ CollectorUnchanged /\ ExecutorUnchanged /\ UNCHANGED limiter

InitEngine ==
    /\ consensus = [n \in Validators |-> NewEngine(ChainId, n, InitialBalances)]
    /\ tx_pool = [n \in Validators |-> <<>>]
    /\ sent_votes = [n \in Validators |-> {}]
    /\ accepted_headers = [n \in Validators |-> {}]
    /\ requested_bodies = [n \in Validators |-> {}]
    /\ pending_block_bodies = [n \in Validators |-> EmptyMap]
    /\ message_queue = {}
    /\ inboxes = [n \in Validators |-> {}]
    /\ phase = "engine"
    /\ turn = 0
    /\ dropped_count = 0
    /\ duplicated_count = 0
    /\ validated = [n \in Validators |-> {}]
    /\ calls = 0
    /\ buffered_votes = {}
    /\ limiter = NewLimiter
    /\ ExecutorIdle
    /\ CollectorIdle

NextEngine == EngineReceiveProposal \/ EngineReceiveVote

SpecEngine == InitEngine /\ [][NextEngine]_vars

(***************************************************************************)
(* SpecSigners: the engine of validator 0 when every other validator key   *)
(* signs at most one prevote and one precommit per height                  *)
(***************************************************************************)
SignerBlocks == {CandValid, CandAlt}
\* keys that are not in all_validators (NumValidators itself stands for "genesis")
Outsiders == (NumValidators + 1) .. (NumValidators + MaxOutsiders)
\* well-signed votes: prevotes and precommits of the other validators, and
\* precommits carrying the address of a key outside all_validators
SignerVotes ==
    {SignedVote(t, b.header.height, b.block_hash, v, ChainId, v) :
        t \in {"prevote", "precommit"}, b \in SignerBlocks, v \in OtherValidators}
    \cup {SignedVote("precommit", b.header.height, b.block_hash, v, ChainId, v) :
            b \in SignerBlocks, v \in Outsiders}

SignerProposals ==
    {[block |-> b, proposer_address |-> b.header.proposer] : b \in SignerBlocks}

\* the votes the engine has been handed: recorded in the collector or still buffered
Delivered(e) ==
    {<<"prevote", x[1], x[2], x[3]>> : x \in e.vote_collector.prevotes}
    \cup {<<"precommit", x[1], x[2], x[3]>> : x \in e.vote_collector.precommits}
    \cup {VoteData(e.pending_votes[i]) : i \in 1 .. Len(e.pending_votes)}

\* the key of this vote has signed no vote of this type and height for another block
SignsOnce(e, vote) ==
    \A d \in Delivered(e) :
        (d[1] = vote.vote_type /\ d[2] = vote.height /\ d[4] = vote.validator_address)
            => d[3] = vote.block_hash

SignersReceiveProposal ==
    /\ phase = "signers"
    /\ calls < MaxSignerCalls
    /\ \E payload \in SignerProposals :
         LET proposal == ProposalFromDict(payload)
         IN /\ consensus' = [consensus EXCEPT ![0] = ReceiveProposal(@, proposal)]
            /\ validated' = [validated EXCEPT ![0] =
                  IF ValidateProposal(consensus[0], proposal).ok
                  THEN @ \cup {proposal.block.block_hash} ELSE @]
    /\ calls' = calls + 1
    /\ UNCHANGED buffered_votes
    /\ NodesUnchanged /\ CollectorUnchanged /\ ExecutorUnchanged /\ UNCHANGED limiter

SignersReceiveVote ==
    /\ phase = "signers"
    /\ calls < MaxSignerCalls
    /\ \E vote \in SignerVotes :
         /\ SignsOnce(consensus[0], vote)
         /\ \/ HasPending(consensus[0], vote.height, vote.block_hash)
            \/ Len(consensus[0].pending_votes) < MaxBuffered
         /\ consensus' = [consensus EXCEPT ![0] = ReceiveVote(@, vote)]
    /\ calls' = calls + 1
    /\ UNCHANGED <<validated, buffered_votes>>
    /\ NodesUnchanged /\ CollectorUnchanged /\ ExecutorUnchanged /\ UNCHANGED limiter

InitSigners ==
    /\ consensus = [n \in Validators |-> NewEngine(ChainId, n, InitialBalances)]
    /\ tx_pool = [n \in Validators |-> <<>>]
    /\ sent_votes = [n \in Validators |-> {}]
    /\ accepted_headers = [n \in Validators |-> {}]
    /\ requested_bodies = [n \in Validators |-> {}]
    /\ pending_block_bodies = [n \in Validators |-> EmptyMap]
    /\ message_queue = {}
    /\ inboxes = [n \in Validators |-> {}]
    /\ phase = "signers"
    /\ turn = 0
    /\ dropped_count = 0
    /\ duplicated_count = 0
    /\ validated = [n \in Validators |-> {}]
    /\ calls = 0
    /\ buffered_votes = {}
    /\ limiter = NewLimiter
    /\ ExecutorIdle
    /\ CollectorIdle

NextSigners == SignersReceiveProposal \/ SignersReceiveVote

SpecSigners == InitSigners /\ [][NextSigners]_vars

(***************************************************************************)
(* SpecCollector: one VoteCollector(total_validators) under add_vote calls *)
(***************************************************************************)
CollectorVoters == 0 .. (MaxN - 1)
\* well-signed votes: every voter for one block, and voter 0 also for another block
\* at the same height
CollectorGoodVotes ==
    {SignedVote(t, 1, CandValid.block_hash, v, ChainId, v) :
        t \in {"prevote", "precommit"}, v \in CollectorVoters}
    \cup {SignedVote(t, 1, CandAlt.block_hash, 0, ChainId, 0) : t \in {"prevote", "precommit"}}
\* votes whose signature does not verify: signed by another key, never signed,
\* signed for another chain, and tampered with after signing
CollectorBadVotes ==
    {SignedVote("prevote", 1, CandValid.block_hash, 1, ChainId, 0),
     [SignedVote("prevote", 1, CandValid.block_hash, 1, ChainId, 1)
        EXCEPT !.signature = NoSignature],
     [SignedVote("precommit", 1, CandValid.block_hash, 1, OtherChainId, 1)
        EXCEPT !.chain_id = ChainId],
     [SignedVote("precommit", 1, CandValid.block_hash, 1, ChainId, 1)
        EXCEPT !.block_hash = CandAlt.block_hash]}
CollectorVotes == CollectorGoodVotes \cup CollectorBadVotes

CollectorAddVote ==
    /\ phase = "collector"
    /\ \E vote \in CollectorVotes :
         LET r == AddVote(collector, vote)
         IN /\ collector' = r.vote_collector
            /\ last_vote' = vote
            /\ last_result' = r.is_new
    /\ UNCHANGED <<consensus, validated, calls, buffered_votes>>
    /\ NodesUnchanged /\ ExecutorUnchanged /\ UNCHANGED limiter

InitCollector ==
    /\ consensus = [n \in Validators |-> NewEngine(ChainId, n, InitialBalances)]
    /\ tx_pool = [n \in Validators |-> <<>>]
    /\ sent_votes = [n \in Validators |-> {}]
    /\ accepted_headers = [n \in Validators |-> {}]
    /\ requested_bodies = [n \in Validators |-> {}]
    /\ pending_block_bodies = [n \in Validators |-> EmptyMap]
    /\ message_queue = {}
    /\ inboxes = [n \in Validators |-> {}]
    /\ phase = "collector"
    /\ turn = 0
    /\ dropped_count = 0
    /\ duplicated_count = 0
    /\ validated = [n \in Validators |-> {}]
    /\ calls = 0
    /\ buffered_votes = {}
    /\ limiter = NewLimiter
    /\ ExecutorIdle
    /\ \E n \in 1 .. MaxN : collector = NewVoteCollector(n)
    /\ last_vote = SignedVote("prevote", 0, ZeroHash, 0, ChainId, 0)
    /\ last_result = FALSE

NextCollector == CollectorAddVote

SpecCollector == InitCollector /\ [][NextCollector]_vars

(***************************************************************************)
(* SpecPool: the driver loop of Spec on a reliable network, where any node *)
(* may be handed any transaction through submit_transaction and any node   *)
(* may be sent any TRANSACTION payload by a peer outside the validator set *)
(***************************************************************************)
\* Tx0 with the amount changed after signing
TamperedTx == [Tx0 EXCEPT !.amount = 2]
\* the last one is signed by its sender for another chain and carries that chain's id
PoolTxs == {Tx0, BadSigTx, TamperedTx, SignedTx(0, 1, 1, 0, OtherChainId, 0)}
\* the address of the outside peer
Peer == NumValidators + 1

\* submit_transaction without the signature check
SubmitTxUnchecked(pool, queue, n, tx) ==
    [tx_pool |-> Append(pool, tx), queue |-> BroadcastMessage(queue, n, "TRANSACTION", tx)]

\* BlockchainNode.submit_transaction: [tx_pool, queue]
SubmitTx(pool, queue, n, tx) ==
    IF TxVerify(tx)
    THEN [tx_pool |-> Append(pool, tx),
          queue |-> BroadcastMessage(queue, n, "TRANSACTION", tx)]
    ELSE [tx_pool |-> pool, queue |-> queue]

\* node n is handed a transaction between two iterations of the loop
PoolSubmit ==
    /\ phase = "net"
    /\ calls < MaxPoolCalls
    /\ \E n \in Validators, tx \in PoolTxs :
         LET r == SubmitTx(tx_pool[n], message_queue, n, tx)
         IN /\ tx_pool' = [tx_pool EXCEPT ![n] = r.tx_pool]
            /\ message_queue' = r.queue
    /\ calls' = calls + 1
    /\ UNCHANGED <<consensus, sent_votes, inboxes, phase, turn, dropped_count,
                   duplicated_count, validated, buffered_votes>>
    /\ CollectorUnchanged /\ ExecutorUnchanged /\ UNCHANGED limiter /\ GossipUnchanged

\* network.send_message(peer, receiver, "TRANSACTION", payload) by the outside peer
PoolSend ==
    /\ phase = "net"
    /\ calls < MaxPoolCalls
    /\ \E r \in Validators, tx \in PoolTxs :
         message_queue' = Enqueue(message_queue, NetworkMessage(Peer, r, "TRANSACTION", tx))
    /\ calls' = calls + 1
    /\ UNCHANGED <<consensus, tx_pool, sent_votes, inboxes, phase, turn, dropped_count,
                   duplicated_count, validated, buffered_votes>>
    /\ CollectorUnchanged /\ ExecutorUnchanged /\ UNCHANGED limiter /\ GossipUnchanged

InitPool ==
    /\ consensus = [n \in Validators |-> NewEngine(ChainId, n, InitialBalances)]
    /\ tx_pool = [n \in Validators |-> <<>>]
    /\ sent_votes = [n \in Validators |-> {}]
    /\ accepted_headers = [n \in Validators |-> {}]
    /\ requested_bodies = [n \in Validators |-> {}]
    /\ pending_block_bodies = [n \in Validators |-> EmptyMap]
    /\ message_queue = {}
    /\ inboxes = [n \in Validators |-> {}]
    /\ phase = "net"
    /\ turn = 0
    /\ dropped_count = 0
    /\ duplicated_count = 0
    /\ validated = [n \in Validators |-> {}]
    /\ calls = 0
    /\ buffered_votes = {}
    /\ limiter = NewLimiter
    /\ ExecutorIdle
    /\ CollectorIdle

NextPool ==
    \/ PoolSubmit
    \/ PoolSend
    \/ NetworkTick
    \/ HandleMessage
    \/ EndTick

SpecPool == InitPool /\ [][NextPool]_vars

(***************************************************************************)
(* SpecGossip: the single-transaction run of SpecSingle while a peer       *)
(* outside the validator set sends BLOCK_HEADER messages to the nodes      *)
(***************************************************************************)
\* blocks whose headers the peer announces: at height 1 or 2, on top of the genesis
\* block of the run or of no block of the chain
GossipBlocks ==
    {BlockOn(h, parent, SingleBalances, <<>>, Leader(h)) :
        h \in {1, 2},
        parent \in {MarkFinalized(CreateGenesis(StateHash(SingleBalances))).block_hash,
                    ZeroHash}}

\* network.send_message(peer, receiver, "BLOCK_HEADER", payload), at most one message
\* of the peer per iteration of the loop
GossipSend ==
    /\ phase = "net"
    /\ calls < MaxTicks
    /\ \A q \in message_queue : q.sender # Peer
    /\ \E r \in Validators, b \in GossipBlocks :
         message_queue' =
            Enqueue(message_queue,
                    NetworkMessage(Peer, r, "BLOCK_HEADER",
                                   [header |-> b.header,
                                    proposer_address |-> b.header.proposer,
                                    block_hash |-> b.block_hash]))
    /\ UNCHANGED <<consensus, tx_pool, sent_votes, inboxes, phase, turn, dropped_count,
                   duplicated_count, validated, calls, buffered_votes>>
    /\ CollectorUnchanged /\ ExecutorUnchanged /\ UNCHANGED limiter /\ GossipUnchanged

NextGossip ==
    \/ GossipSend
    \/ CountedNetworkTick
    \/ HandleMessage
    \/ EndTick

SpecGossip == InitSingle /\ [][NextGossip]_vars

(***************************************************************************)
(* SpecReplay: the single-transaction run of SpecSingle in which, once     *)
(* validator 0 has finalized the block with the transfer, a peer sends     *)
(* every node a proposal for the next height that holds the transfer again *)
(***************************************************************************)
\* network.broadcast_message(peer, "BLOCK_PROPOSAL", payload): the block is built on
\* validator 0's chain head by an executor with an empty nonce table
ReplaySend ==
    /\ phase = "net"
    /\ calls < MaxTicks
    /\ consensus[0].current_height = 2
    /\ LET e == consensus[0]
           block == BlockOn(e.current_height, LastBlock(e).block_hash, e.current_state,
                            <<SingleTx>>, Leader(e.current_height))
       IN /\ \A n \in Validators :
                ~HasPending(consensus[n], block.header.height, block.block_hash)
          /\ \A q \in message_queue : q.sender # Peer
          /\ message_queue' =
                BroadcastMessage(message_queue, Peer, "BLOCK_PROPOSAL",
                                 [block |-> block,
                                  proposer_address |-> block.header.proposer])
    /\ UNCHANGED <<consensus, tx_pool, sent_votes, inboxes, phase, turn, dropped_count,
                   duplicated_count, validated, calls, buffered_votes>>
    /\ CollectorUnchanged /\ ExecutorUnchanged /\ UNCHANGED limiter /\ GossipUnchanged

NextReplay ==
    \/ ReplaySend
    \/ CountedNetworkTick
    \/ HandleMessage
    \/ EndTick

SpecReplay == InitSingle /\ [][NextReplay]_vars

(***************************************************************************)
(* SpecLag: one engine that is handed the proposals of heights 1 and 2 and *)
(* votes of the other validators for them, in any order and more than once *)
(* (a delayed or duplicated message may reach a node that lags behind),    *)
(* and a proposal for height 1 made by the leader of height 2              *)
(***************************************************************************)
LagReceiveProposal ==
    /\ phase = "engine"
    /\ calls < MaxLagCalls
    /\ \E b \in VotedBlocks \cup {BlockOn(1, GenesisBlock.block_hash, InitialBalances,
                                          <<Tx0>>, Leader(2))} :
         LET proposal == ProposalFromDict([block |-> b,
                                           proposer_address |-> b.header.proposer])
         IN /\ consensus' = [consensus EXCEPT ![0] = ReceiveProposal(@, proposal)]
            /\ validated' = [validated EXCEPT ![0] =
                  IF ValidateProposal(consensus[0], proposal).ok
                  THEN @ \cup {proposal.block.block_hash} ELSE @]
    /\ calls' = calls + 1
    /\ UNCHANGED buffered_votes
    /\ NodesUnchanged /\ CollectorUnchanged /\ ExecutorUnchanged /\ UNCHANGED limiter

\* prevotes of validators 1 and 2 and precommits of validators 1, 2 and 3, each handed
\* over after the proposal of its block
LagReceiveVote ==
    /\ phase = "engine"
    /\ calls < MaxLagCalls
    /\ \E b \in VotedBlocks, v \in OtherValidators, t \in {"prevote", "precommit"} :
         LET vote == SignedVote(t, b.header.height, b.block_hash, v, ChainId, v)
         IN /\ t = "prevote" => v < NumValidators - 1
            /\ HasPending(consensus[0], vote.height, vote.block_hash)
            /\ consensus' = [consensus EXCEPT ![0] = ReceiveVote(@, vote)]
    /\ calls' = calls + 1
    /\ UNCHANGED <<validated, buffered_votes>>
    /\ NodesUnchanged /\ CollectorUnchanged /\ ExecutorUnchanged /\ UNCHANGED limiter

NextLag == LagReceiveProposal \/ LagReceiveVote

SpecLag == InitEngine /\ [][NextLag]_vars

(***************************************************************************)
(* SpecRate: the network alone, without loss, duplication or delay, under  *)
(* send_message calls of validators 0 and 1 to validator 2 and tick(1.0)   *)
(***************************************************************************)
\* network.send_message(sender, receiver, "TEST", {"seq": i})
RateSend ==
    /\ phase = "rate"
    /\ calls < MaxSends
    /\ \E sender \in {0, 1} :
         LET r == CheckRateLimit(limiter, sender)
         IN /\ limiter' = [r.limiter EXCEPT !.last_sender = sender]
            /\ IF r.allowed
               THEN /\ message_queue' = Enqueue(message_queue,
                           NetworkMessage(sender, 2, "TEST", [seq |-> calls]))
                    /\ UNCHANGED dropped_count
               ELSE /\ dropped_count' = dropped_count + 1
                    /\ UNCHANGED message_queue
    /\ calls' = calls + 1
    /\ UNCHANGED <<consensus, tx_pool, sent_votes, inboxes, phase, turn,
                   duplicated_count, validated, buffered_votes>>
    /\ CollectorUnchanged /\ GossipUnchanged /\ UNCHANGED <<executor, exec_call>>

\* network.tick(1.0)
RateTick ==
    /\ phase = "rate"
    /\ limiter.simulation_time < MaxTime
    /\ limiter' = [limiter EXCEPT !.simulation_time = @ + 1]
    /\ inboxes' = [r \in Validators |->
                      inboxes[r] \cup {m \in message_queue : m.receiver = r}]
    /\ message_queue' = {}
    /\ UNCHANGED <<consensus, tx_pool, sent_votes, phase, turn, dropped_count,
                   duplicated_count, validated, buffered_votes, calls>>
    /\ CollectorUnchanged /\ GossipUnchanged /\ UNCHANGED <<executor, exec_call>>

InitRate ==
    /\ consensus = [n \in Validators |-> NewEngine(ChainId, n, InitialBalances)]
    /\ tx_pool = [n \in Validators |-> <<>>]
    /\ sent_votes = [n \in Validators |-> {}]
    /\ accepted_headers = [n \in Validators |-> {}]
    /\ requested_bodies = [n \in Validators |-> {}]
    /\ pending_block_bodies = [n \in Validators |-> EmptyMap]
    /\ message_queue = {}
    /\ inboxes = [n \in Validators |-> {}]
    /\ phase = "rate"
    /\ turn = 0
    /\ dropped_count = 0
    /\ duplicated_count = 0
    /\ validated = [n \in Validators |-> {}]
    /\ calls = 0
    /\ buffered_votes = {}
    /\ limiter = NewLimiter
    /\ ExecutorIdle
    /\ CollectorIdle

SpecRate == InitRate /\ [][RateSend \/ RateTick]_vars

(***************************************************************************)
(* SpecExecutor: one Executor and a State with non-negative balances; any  *)
(* sequence of execute_transaction, execute_transactions and reset_nonces  *)
(* calls on the executor, and of State.transfer calls, each on a copy of   *)
(* the State                                                               *)
(***************************************************************************)
ExecAddresses == {0, 1}
\* Transaction.__init__ takes any integer as amount
ExecAmounts == {0 - MaxAmount} \cup (1 .. MaxAmount)
ExecTxs ==
    {SignedTx(p[1], p[2], a, n, ChainId, p[1]) :
        p \in {q \in ExecAddresses \X ExecAddresses : q[1] # q[2]},
        a \in ExecAmounts, n \in 0 .. MaxNonce}
    \cup {BadSigTx}
ExecTxLists ==
    UNION {[1 .. k -> ExecTxs] : k \in 0 .. MaxTxs}
ExecStates ==
    {[a \in Validators |-> IF a = 0 THEN x ELSE IF a = 1 THEN y ELSE GenesisBalance] :
        x \in 0 .. GenesisBalance, y \in 0 .. GenesisBalance}

EngineIdle ==
    /\ UNCHANGED <<consensus, validated, calls, buffered_votes, limiter>>
    /\ NodesUnchanged /\ CollectorUnchanged

\* executor.execute_transaction(state.copy(), tx)
ExecExecuteTransaction ==
    /\ phase = "executor"
    /\ \E tx \in ExecTxs :
         LET r == ExecuteTransaction(exec_call.state, executor, tx)
         IN /\ executor' = r.nonces
            /\ exec_call' = [op |-> "execute_transaction", state |-> exec_call.state,
                             txs |-> <<tx>>, nonces |-> executor, ok |-> r.ok,
                             new_state |-> r.state]
    /\ EngineIdle

\* executor.execute_transactions(state, txs)
ExecExecuteTransactions ==
    /\ phase = "executor"
    /\ \E txs \in ExecTxLists :
         LET r == ExecuteTransactions(exec_call.state, executor, txs)
         IN /\ executor' = r.nonces
            /\ exec_call' = [op |-> "execute_transactions", state |-> exec_call.state,
                             txs |-> txs, nonces |-> executor, executed |-> r.executed,
                             new_state |-> r.state]
    /\ EngineIdle

\* executor.reset_nonces()
ExecResetNonces ==
    /\ phase = "executor"
    /\ executor' = EmptyNonces
    /\ exec_call' = [op |-> "reset_nonces", state |-> exec_call.state, nonces |-> executor]
    /\ EngineIdle

\* state.copy().transfer(from_addr, to_addr, amount)
ExecTransfer ==
    /\ phase = "executor"
    /\ \E f \in ExecAddresses, t \in ExecAddresses, amount \in ExecAmounts :
         LET r == Transfer(exec_call.state, f, t, amount)
         IN exec_call' = [op |-> "transfer", state |-> exec_call.state, from_addr |-> f,
                          to_addr |-> t, amount |-> amount, ok |-> r.ok,
                          new_state |-> r.state]
    /\ UNCHANGED executor
    /\ EngineIdle

InitExecutor ==
    /\ consensus = [n \in Validators |-> NewEngine(ChainId, n, InitialBalances)]
    /\ tx_pool = [n \in Validators |-> <<>>]
    /\ sent_votes = [n \in Validators |-> {}]
    /\ accepted_headers = [n \in Validators |-> {}]
    /\ requested_bodies = [n \in Validators |-> {}]
    /\ pending_block_bodies = [n \in Validators |-> EmptyMap]
    /\ message_queue = {}
    /\ inboxes = [n \in Validators |-> {}]
    /\ phase = "executor"
    /\ turn = 0
    /\ dropped_count = 0
    /\ duplicated_count = 0
    /\ validated = [n \in Validators |-> {}]
    /\ calls = 0
    /\ buffered_votes = {}
    /\ limiter = NewLimiter
    /\ CollectorIdle
    /\ executor = EmptyNonces
    /\ \E state \in ExecStates : exec_call = NoCall(state)

NextExecutor ==
    \/ ExecExecuteTransaction
    \/ ExecExecuteTransactions
    \/ ExecResetNonces
    \/ ExecTransfer

SpecExecutor == InitExecutor /\ [][NextExecutor]_vars

(***************************************************************************)
(* Properties                                                              *)
(***************************************************************************)
\* the (vote_type, height, block_hash, validator) tuples a collector has recorded
Recorded(vc) ==
    {<<"prevote", x[1], x[2], x[3]>> : x \in vc.prevotes}
    \cup {<<"precommit", x[1], x[2], x[3]>> : x \in vc.precommits}

\* C1: consensus safety. In a run of honest validators over a transport that may drop,
\* duplicate and reorder messages, any two nodes hold the same block hash at every
\* chain index both of them have.
ConsensusSafety ==
    \A i, j \in Validators :
        \A h \in 1 .. Len(Chain(i)) :
            h <= Len(Chain(j)) => Chain(i)[h].block_hash = Chain(j)[h].block_hash

\* C2: when every validator key signs at most one prevote and one precommit per
\* height, no node's blockchain holds two blocks of equal header.height and
\* different hashes.
OneBlockPerHeight ==
    \A n \in Validators :
        \A i, j \in 1 .. Len(Chain(n)) :
            Chain(n)[i].header.height = Chain(n)[j].header.height
                => Chain(n)[i].block_hash = Chain(n)[j].block_hash

\* C3: chain height invariant. After any sequence of receive_proposal and
\* receive_vote calls, the block at index i of blockchain (counted from 0) has
\* header.height = i.
ChainHeights ==
    \A n \in Validators :
        \A i \in 1 .. Len(Chain(n)) : Chain(n)[i].header.height = i - 1

\* C4: chain linkage invariant. Every block of blockchain after the first names the
\* hash of the block before it as its parent_hash.
ChainLinkage ==
    \A n \in Validators :
        \A i \in 2 .. Len(Chain(n)) :
            Chain(n)[i].header.parent_hash = Chain(n)[i - 1].block_hash

\* C5: a block is appended exactly once. Whatever votes and re-delivered proposals
\* follow a finalization, each block hash occurs at most once in blockchain.
AppendedOnce ==
    \A n \in Validators :
        \A i, j \in 1 .. Len(Chain(n)) :
            Chain(n)[i].block_hash = Chain(n)[j].block_hash => i = j

\* C6: a proposal that failed validation at the receiving node is never finalized by
\* it: every block a node has appended after genesis passed _validate_proposal at
\* that node on some delivery.
RejectedNeverFinalized ==
    \A n \in Validators :
        \A i \in 2 .. Len(Chain(n)) : Chain(n)[i].block_hash \in validated[n]

\* C7: a node prevotes (height, block_hash) only for a proposal that was valid when it
\* was received: in the step that assigns prevoted[h], the block's height is the
\* node's current_height, its parent_hash is the hash of the last finalized block, all
\* its transactions verify, and re-executing them on current_state gives the header's
\* state_hash.
PrevoteOnlyValid ==
    [][\A n \in Validators :
          \A h \in DOMAIN consensus'[n].prevoted :
              h \notin DOMAIN consensus[n].prevoted =>
                  LET e == consensus[n]
                      b == consensus'[n].pending_blocks[<<h, consensus'[n].prevoted[h]>>]
                  IN /\ b.header.height = h
                     /\ h = e.current_height
                     /\ b.header.parent_hash = e.blockchain[Len(e.blockchain)].block_hash
                     /\ \A k \in 1 .. Len(b.transactions) : TxVerify(b.transactions[k])
                     /\ StateHash(StateAfter(e.current_state, b.transactions))
                            = b.header.state_hash]_vars
\* the node has received an invalid and a valid proposal for height 1 and prevoted
\* the valid one
PrevoteOnlyValidWitness ==
    /\ HasPending(consensus[0], 1, CandWrongState.block_hash)
    /\ HasPending(consensus[0], 1, CandBadSig.block_hash)
    /\ 1 \in DOMAIN consensus[0].prevoted
    /\ consensus[0].prevoted[1] = CandValid.block_hash

\* C8: prevoted[h] and precommitted[h] are each assigned at most once: an entry that
\* exists is never removed and never changes.
VotedOncePerHeight ==
    [][\A n \in Validators :
          /\ \A h \in DOMAIN consensus[n].prevoted :
                /\ h \in DOMAIN consensus'[n].prevoted
                /\ consensus'[n].prevoted[h] = consensus[n].prevoted[h]
          /\ \A h \in DOMAIN consensus[n].precommitted :
                /\ h \in DOMAIN consensus'[n].precommitted
                /\ consensus'[n].precommitted[h] = consensus[n].precommitted[h]]_vars
\* the node has prevoted and precommitted one block of height 1 and holds another
\* valid proposal for that height
VotedOncePerHeightWitness ==
    /\ 1 \in DOMAIN consensus[0].prevoted
    /\ 1 \in DOMAIN consensus[0].precommitted
    /\ consensus[0].prevoted[1] = CandValid.block_hash
    /\ consensus[0].precommitted[1] = CandValid.block_hash
    /\ HasPending(consensus[0], 1, CandAlt.block_hash)

\* C9: quorum correctness. For every total_validators N, height and block hash,
\* has_prevote_majority and has_precommit_majority are true exactly when the number of
\* distinct validators recorded for that phase, height and hash exceeds floor(2N/3).
QuorumCorrectness ==
    \A h \in 1 .. 2 : \A b \in {CandValid.block_hash, CandAlt.block_hash} :
        LET N == collector.total_validators
            prevoters == {v \in CollectorVoters : <<"prevote", h, b, v>> \in Recorded(collector)}
            precommitters == {v \in CollectorVoters : <<"precommit", h, b, v>> \in Recorded(collector)}
        IN /\ HasPrevoteMajority(collector, h, b) <=> (3 * Cardinality(prevoters) > 2 * N)
           /\ HasPrecommitMajority(collector, h, b) <=> (3 * Cardinality(precommitters) > 2 * N)
\* N = 4: three recorded prevoters make a majority, two recorded precommitters do not
QuorumCorrectnessWitness ==
    /\ collector.total_validators = 4
    /\ GetPrevoteCount(collector, 1, CandValid.block_hash) = 3
    /\ HasPrevoteMajority(collector, 1, CandValid.block_hash)
    /\ GetPrecommitCount(collector, 1, CandValid.block_hash) = 2
    /\ ~HasPrecommitMajority(collector, 1, CandValid.block_hash)

BufferedVotesReplayed ==
    LET e == consensus[0]
        pending == {VoteData(e.pending_votes[i]) : i \in 1 .. Len(e.pending_votes)}
    IN /\ \A i \in 1 .. Len(e.pending_votes) :
            ~HasPending(e, e.pending_votes[i].height, e.pending_votes[i].block_hash)
       /\ \A d \in buffered_votes :
            IF HasPending(e, d[2], d[3])
            THEN d \in Recorded(e.vote_collector)
            ELSE d \in pending
       /\ \A t \in {"prevote", "precommit"}, b \in CandidateBlocks :
            LET entries == {d \in Recorded(e.vote_collector) :
                               d[1] = t /\ d[2] = b.header.height /\ d[3] = b.block_hash}
                count == IF t = "prevote"
                         THEN GetPrevoteCount(e.vote_collector, b.header.height, b.block_hash)
                         ELSE GetPrecommitCount(e.vote_collector, b.header.height, b.block_hash)
            IN count = Cardinality({d[4] : d \in entries})

\* two votes were buffered, their block has arrived since, and both are counted
BufferedVotesReplayedWitness ==
    LET e == consensus[0]
    IN /\ HasPending(e, 1, CandValid.block_hash)
       /\ e.pending_votes = <<>>
       /\ Cardinality({d \in buffered_votes :
              d[1] = "prevote" /\ d[3] = CandValid.block_hash}) = 2
       /\ GetPrevoteCount(e.vote_collector, 1, CandValid.block_hash) = 3

\* C12: propose_block builds the header's state_hash with a fresh nonce table, so a
\* validator's own proposal passes its own _validate_proposal: every block a node
\* proposed (a pending block whose header names the node as proposer) is one for which
\* the node's _validate_proposal returned True.
OwnProposalValid ==
    \A n \in Validators :
        \A k \in DOMAIN consensus[n].pending_blocks :
            consensus[n].pending_blocks[k].header.proposer = n => k[2] \in validated[n]

\* the test's final assertions: every chain is genesis plus one block, the chains are
\* equal, and the transfer of 50 has been applied once
SingleOutcome ==
    /\ \A n \in Validators : Len(Chain(n)) = 2
    /\ \A n, m \in Validators :
          Chain(n)[2].block_hash = Chain(m)[2].block_hash
          /\ Chain(n)[1].block_hash = Chain(m)[1].block_hash
    /\ \A n \in Validators :
          consensus[n].current_state =
              [a \in Validators |-> IF a = 0 THEN SingleBalance - SingleAmount
                                    ELSE IF a = 1 THEN SingleBalance + SingleAmount
                                    ELSE SingleBalance]
\* nothing is left to do: no message in flight and no leader with a transaction to propose
Quiescent ==
    /\ message_queue = {}
    /\ \A n \in Validators :
          /\ inboxes[n] = {}
          /\ ~(Leader(consensus[n].current_height) = n /\ Len(tx_pool[n]) > 0)

\* the loop has run all its iterations
LoopDone == calls = MaxTicks /\ phase = "net"

\* C17: the single-block scenario (N = 4, balances 1000, no loss, no delay, validator 0
\* sends 50 to validator 1). When the driver loop has run, every chain has length
\* exactly 2, all chains are equal, every node's state is 950 / 1050 / 1000 / 1000, and
\* nothing is left that a further iteration could act on.
SingleBlockFinalization == LoopDone => SingleOutcome /\ Quiescent

SingleBlockFinalizationWitness ==
    /\ LoopDone
    /\ \A n \in Validators :
          /\ Len(Chain(n)) = 2
          /\ Chain(n)[2].transactions = <<SingleTx>>
          /\ consensus[n].current_state[1] = SingleBalance + SingleAmount

ExecutorDeterminism ==
    exec_call.op = "execute_transactions" =>
        LET fresh == ExecuteTransactions(exec_call.state, EmptyNonces, exec_call.txs)
        IN /\ exec_call.new_state = fresh.state
           /\ exec_call.executed = fresh.executed

\* how many entries of executed are transactions of sender a
ExecutedFrom(a) ==
    Cardinality({j \in 1 .. Len(exec_call.executed) :
                    \E i \in 1 .. Len(exec_call.txs) :
                        /\ exec_call.txs[i].from_addr = a
                        /\ exec_call.executed[j] = TxHash(exec_call.txs[i])})

\* C14: replay protection within one execution context. A transaction is applied only
\* if its nonce equals the sender's expected nonce; the expected nonce is 0 after
\* reset_nonces and grows by one with every applied transaction and with nothing else,
\* so no transaction is applied twice by one execute_transactions call.
ReplayProtection ==
    /\ exec_call.op = "execute_transaction" =>
          LET tx == exec_call.txs[1]
              before == exec_call.nonces
          IN /\ exec_call.ok =>
                   /\ tx.nonce = before[tx.from_addr]
                   /\ executor = [before EXCEPT ![tx.from_addr] = @ + 1]
             /\ ~exec_call.ok => executor = before
             /\ (TxVerify(tx) /\ exec_call.state[tx.from_addr] >= tx.amount) =>
                   (exec_call.ok <=> tx.nonce = before[tx.from_addr])
    /\ exec_call.op = "execute_transactions" =>
          /\ \A i, j \in 1 .. Len(exec_call.executed) :
                i # j => exec_call.executed[i] # exec_call.executed[j]
          /\ \A a \in Validators : executor[a] = exec_call.nonces[a] + ExecutedFrom(a)
    /\ exec_call.op = "reset_nonces" => executor = EmptyNonces

\* a list that holds the same valid transaction twice had it applied once
ReplayProtectionWitness ==
    /\ exec_call.op = "execute_transactions"
    /\ Len(exec_call.txs) = 2
    /\ exec_call.txs[1] = exec_call.txs[2]
    /\ exec_call.executed = <<TxHash(exec_call.txs[1])>>
    /\ exec_call.new_state # exec_call.state

\* execute_transaction returns False for tx on this state and nonce table
Fails(state, nonces, tx) ==
    \/ ~TxVerify(tx)
    \/ tx.nonce # nonces[tx.from_addr]
    \/ state[tx.from_addr] < tx.amount

\* C15: a transaction that fails (bad signature, wrong nonce, insufficient balance)
\* changes neither the state nor any expected nonce, and execute_transactions goes on
\* with the transactions after it: a list that starts with a failing transaction gives
\* what the rest of the list gives.
FailedTxNoEffect ==
    /\ exec_call.op = "execute_transaction" =>
          /\ exec_call.ok <=> ~Fails(exec_call.state, exec_call.nonces, exec_call.txs[1])
          /\ ~exec_call.ok =>
                exec_call.new_state = exec_call.state /\ executor = exec_call.nonces
    /\ (exec_call.op = "execute_transactions" /\ Len(exec_call.txs) >= 1
          /\ Fails(exec_call.state, exec_call.nonces, exec_call.txs[1])) =>
          LET rest == ExecuteTransactions(exec_call.state, exec_call.nonces,
                                          Tail(exec_call.txs))
          IN /\ exec_call.new_state = rest.state
             /\ exec_call.executed = rest.executed
             /\ executor = rest.nonces

\* a failing transaction followed by one that was applied
FailedTxNoEffectWitness ==
    /\ exec_call.op = "execute_transactions"
    /\ Len(exec_call.txs) = 2
    /\ Fails(exec_call.state, exec_call.nonces, exec_call.txs[1])
    /\ TxVerify(exec_call.txs[1])
    /\ exec_call.executed = <<TxHash(exec_call.txs[2])>>
    /\ exec_call.new_state # exec_call.state

\* C16: State.transfer returns False exactly when the sender's balance is below the
\* amount and then leaves the state as it was, and, starting from non-negative
\* balances, no transfer and no execution produces a negative balance, whatever amount
\* is carried.
NonNegativeBalances ==
    /\ exec_call.op = "transfer" =>
          /\ exec_call.ok <=> exec_call.state[exec_call.from_addr] >= exec_call.amount
          /\ ~exec_call.ok => exec_call.new_state = exec_call.state
    /\ exec_call.op \in {"transfer", "execute_transaction", "execute_transactions"} =>
          \A a \in Validators : exec_call.new_state[a] >= 0

\* C19: the transaction pool rejects a transaction whose signature does not verify. A
\* node's tx_pool changes only by being cleared or by a transaction that verifies being
\* appended, whether it came through submit_transaction or in a TRANSACTION message,
\* and a node broadcasts a TRANSACTION only for a transaction that verifies and that it
\* appended to its pool in the same call.
InvalidTxRejected ==
    [][/\ \A n \in Validators :
            tx_pool'[n] # tx_pool[n] =>
                \/ tx_pool'[n] = <<>>
                \/ /\ Len(tx_pool'[n]) = Len(tx_pool[n]) + 1
                   /\ SubSeq(tx_pool'[n], 1, Len(tx_pool[n])) = tx_pool[n]
                   /\ TxVerify(tx_pool'[n][Len(tx_pool'[n])])
       /\ \A m \in message_queue' \ message_queue :
            (m.message_type = "TRANSACTION" /\ m.sender \in Validators) =>
                /\ TxVerify(m.payload)
                /\ tx_pool'[m.sender] = Append(tx_pool[m.sender], m.payload)]_vars

\* MaxPoolCalls transactions were handed or sent to the nodes and delivered, and no pool
\* holds any of them and no node broadcast or proposed anything
InvalidTxRejectedWitness ==
    /\ calls = MaxPoolCalls
    /\ phase = "net"
    /\ message_queue = {}
    /\ \A n \in Validators :
          /\ tx_pool[n] = <<>>
          /\ inboxes[n] = {}
          /\ DOMAIN consensus[n].pending_blocks = {}

\* C20: duplicate suppression. A node broadcasts each of its own votes, identified by
\* (vote type, height, block hash, validator), at most once: every VOTE message a node's
\* tick puts on the network carries a vote of that node whose identifier was not in
\* its sent_votes before and is in it afterwards, and sent_votes never shrinks.
VoteBroadcastOnce ==
    [][/\ phase = "node" =>
            \A m \in message_queue' \ message_queue :
                m.message_type = "VOTE" =>
                    LET id == VoteId(m.payload.vote_type, m.payload.height,
                                     m.payload.block_hash, m.payload.validator_address)
                    IN /\ m.sender = turn
                       /\ m.payload.validator_address = turn
                       /\ id \notin sent_votes[turn]
                       /\ id \in sent_votes'[turn]
       /\ \A n \in Validators : sent_votes[n] \subseteq sent_votes'[n]]_vars

\* a node that broadcast its prevote and its precommit for a block and has finalized it
\* since, so that it handled further votes for the block after broadcasting
VoteBroadcastOnceWitness ==
    \E n \in Validators :
        /\ Len(Chain(n)) >= 2
        /\ VoteId("prevote", 1, Chain(n)[2].block_hash, n) \in sent_votes[n]
        /\ VoteId("precommit", 1, Chain(n)[2].block_hash, n) \in sent_votes[n]
        /\ \E m \in Validators \ {n} :
              <<1, Chain(n)[2].block_hash, m>> \in consensus[n].vote_collector.precommits

\* C21: leader selection. A node's tick puts a BLOCK_HEADER or BLOCK_PROPOSAL on the
\* network only if the node is the validator at index (current_height - 1) mod N of the
\* shared validator list and its pool is not empty, and every height has exactly one
\* leader in that list.
LeaderOnlyProposes ==
    [][/\ phase = "node" =>
            \A m \in message_queue' \ message_queue :
                m.message_type \in {"BLOCK_HEADER", "BLOCK_PROPOSAL"} =>
                    /\ m.sender = turn
                    /\ m.payload.proposer_address = turn
                    /\ turn = all_validators[((consensus[turn].current_height - 1)
                                                 % NumValidators) + 1]
                    /\ Len(tx_pool[turn]) > 0
       /\ \A h \in 1 .. (MaxHeight + 1) :
            Cardinality({n \in Validators :
                n = all_validators[((h - 1) % NumValidators) + 1]}) = 1]_vars

\* the proposal of validator 1 for height 2 is on the network
LeaderOnlyProposesWitness ==
    \E m \in message_queue :
        /\ m.message_type = "BLOCK_PROPOSAL"
        /\ m.sender = 1
        /\ m.payload.block.header.height = 2
        /\ consensus[1].current_height = 2

\* C22: header/body handshake ordering on a reliable network. A node that is not the
\* proposer has sent its BLOCK_BODY_REQUEST for a block before it casts a prevote for
\* it, in whatever order its inbox is handled: whenever the engine of a non-leader has
\* prevoted a block, the block is in the node's requested_bodies.
RequestBeforePrevote ==
    \A n \in Validators :
        \A h \in DOMAIN consensus[n].prevoted :
            n # Leader(h) => consensus[n].prevoted[h] \in requested_bodies[n]

\* C23: per-sender rate limit. A send is dropped exactly when its sender is inside a
\* block period or has had max_sends_per_second messages accepted in its current window
\* (which is at most RateWindow old); a dropped send leaves the queue as it was, adds one
\* to rate_limited_drops and to dropped_count and leaves the sender blocked, until
\* block_duration after the send that started the block; any other send is queued; and
\* no send changes what the network holds about another sender.
RateLimitBlocks ==
    [][(phase = "rate" /\ calls' = calls + 1) =>
        LET s == limiter'.last_sender
            t == limiter.simulation_time
            blocked == /\ s \in DOMAIN limiter.peer_block_until
                       /\ t < limiter.peer_block_until[s]
            full == /\ s \in DOMAIN limiter.send_rate_limit
                    /\ limiter.send_rate_limit[s][1] >= max_sends_per_second
                    /\ t - limiter.send_rate_limit[s][2] <= RateWindow
        IN /\ (blocked \/ full) =>
                /\ message_queue' = message_queue
                /\ limiter'.rate_limited_drops = limiter.rate_limited_drops + 1
                /\ dropped_count' = dropped_count + 1
                /\ s \in limiter'.blocked_peers
                /\ s \in DOMAIN limiter'.peer_block_until
                /\ limiter'.peer_block_until[s] =
                      IF blocked THEN limiter.peer_block_until[s] ELSE t + block_duration
           /\ ~(blocked \/ full) =>
                /\ \E m \in message_queue' \ message_queue :
                      m.sender = s /\ message_queue' = message_queue \cup {m}
                /\ limiter'.rate_limited_drops = limiter.rate_limited_drops
                /\ dropped_count' = dropped_count
           /\ \A o \in {0, 1} \ {s} :
                /\ o \in limiter'.blocked_peers <=> o \in limiter.blocked_peers
                /\ o \in DOMAIN limiter'.peer_block_until
                      <=> o \in DOMAIN limiter.peer_block_until
                /\ o \in DOMAIN limiter.peer_block_until =>
                      limiter'.peer_block_until[o] = limiter.peer_block_until[o]
                /\ o \in DOMAIN limiter'.send_rate_limit
                      <=> o \in DOMAIN limiter.send_rate_limit
                /\ o \in DOMAIN limiter.send_rate_limit =>
                      limiter'.send_rate_limit[o] = limiter.send_rate_limit[o]]_vars

\* sender 0 is blocked and has had two sends dropped, and a send of sender 1 was
\* accepted just now
RateLimitBlocksWitness ==
    /\ phase = "rate"
    /\ 0 \in limiter.blocked_peers
    /\ 1 \notin limiter.blocked_peers
    /\ limiter.rate_limited_drops >= 2
    /\ dropped_count = limiter.rate_limited_drops
    /\ limiter.last_sender = 1
    /\ \E m \in message_queue : m.sender = 1 /\ m.payload.seq = calls - 1

\* C24: a rate-limit block ends on the sender's next send after expiry. A blocked sender
\* stays in blocked_peers, with the same expiry, through every step that is not a send
\* of its own at or after the expiry; on that send it leaves blocked_peers and
\* peer_block_until and the message is queued.
BlockEndsOnNextSend ==
    [][phase = "rate" =>
        \A s \in limiter.blocked_peers :
            LET ends == /\ calls' = calls + 1
                        /\ limiter'.last_sender = s
                        /\ limiter.simulation_time >= limiter.peer_block_until[s]
            IN /\ s \in DOMAIN limiter.peer_block_until
               /\ ends =>
                    /\ s \notin limiter'.blocked_peers
                    /\ s \notin DOMAIN limiter'.peer_block_until
                    /\ \E m \in message_queue' \ message_queue : m.sender = s
               /\ ~ends =>
                    /\ s \in limiter'.blocked_peers
                    /\ s \in DOMAIN limiter'.peer_block_until
                    /\ limiter'.peer_block_until[s] = limiter.peer_block_until[s]]_vars

\* sender 0 alone has sent, was blocked, and its last send was accepted after the block
BlockEndsOnNextSendWitness ==
    /\ phase = "rate"
    /\ 1 \notin DOMAIN limiter.send_rate_limit
    /\ limiter.rate_limited_drops >= 1
    /\ limiter.blocked_peers = {}
    /\ DOMAIN limiter.peer_block_until = {}
    /\ limiter.simulation_time >= block_duration
    /\ \E m \in message_queue : m.sender = 0 /\ m.payload.seq = calls - 1

\* C25: two-phase ordering. Whatever a node has precommitted at a height has a prevote
\* quorum in the node's own collector, and every non-genesis block of its chain has a
\* precommit quorum there (votes are never removed, so a quorum that held when the node
\* signed or finalized still holds).
TwoPhaseOrdering ==
    \A n \in Validators :
        LET e == consensus[n]
        IN /\ \A h \in DOMAIN e.precommitted :
                HasPrevoteMajority(e.vote_collector, h, e.precommitted[h])
           /\ \A i \in 2 .. Len(e.blockchain) :
                HasPrecommitMajority(e.vote_collector, e.blockchain[i].header.height,
                                     e.blockchain[i].block_hash)

\* the engine has precommitted at height 1 and has finalized a block
TwoPhaseOrderingWitness ==
    /\ phase = "engine"
    /\ 1 \in DOMAIN consensus[0].precommitted
    /\ Len(consensus[0].blockchain) >= 2

\* C26: heights below the current height are no longer consulted. In every step of a
\* node, a prevote or precommit it newly signs is for a height that was not below its
\* current height, and a block it appends to its chain has the height that was current;
\* otherwise blockchain, current_state and current_height stay as they were.
OldHeightsFrozen ==
    [][\A n \in Validators :
        LET e == consensus[n]
            f == consensus'[n]
        IN /\ \A h \in DOMAIN f.prevoted \ DOMAIN e.prevoted : h >= e.current_height
           /\ \A h \in DOMAIN f.precommitted \ DOMAIN e.precommitted : h >= e.current_height
           /\ \/ /\ f.blockchain = e.blockchain
                 /\ f.current_state = e.current_state
                 /\ f.current_height = e.current_height
              \/ /\ Len(f.blockchain) > Len(e.blockchain)
                 /\ \A i \in (Len(e.blockchain) + 1) .. Len(f.blockchain) :
                       f.blockchain[i].header.height >= e.current_height]_vars

\* C27: pending blocks are dropped on finalization. For every non-genesis block of a
\* node's chain, the node's pending_blocks holds no block at that block's height.
PendingDroppedOnFinalize ==
    \A n \in Validators :
        \A i \in 2 .. Len(consensus[n].blockchain) :
            \A k \in DOMAIN consensus[n].pending_blocks :
                k[1] # consensus[n].blockchain[i].header.height

\* C28: the chain is append-only. In every step, each node's previous blockchain is a
\* prefix of its new blockchain and its current_height does not decrease.
AppendOnly ==
    [][\A n \in Validators :
        LET old == consensus[n].blockchain
            new == consensus'[n].blockchain
        IN /\ Len(new) >= Len(old)
           /\ \A i \in 1 .. Len(old) : new[i] = old[i]
           /\ consensus'[n].current_height >= consensus[n].current_height]_vars

\* a node has appended two blocks to the genesis block
AppendOnlyWitness ==
    \E n \in Validators :
        /\ Len(consensus[n].blockchain) >= 3
        /\ consensus[n].current_height >= 3

\* C29: chain-id binding at the node. Every transaction in a node's pool, and every
\* transaction of a block in its chain, carries the chain_id the node is configured with.
ChainIdBinding ==
    \A n \in Validators :
        /\ \A i \in 1 .. Len(tx_pool[n]) : tx_pool[n][i].chain_id = consensus[n].chain_id
        /\ \A i \in 1 .. Len(consensus[n].blockchain) :
              \A j \in 1 .. Len(consensus[n].blockchain[i].transactions) :
                  consensus[n].blockchain[i].transactions[j].chain_id = consensus[n].chain_id

\* C30: only validators count toward quorum. Every address recorded in a collector's
\* prevote or precommit voter set is a validator, and no voter set has more than
\* NumValidators members.
OnlyValidatorsCounted ==
    \A n \in Validators :
        LET vc == consensus[n].vote_collector
        IN \A entry \in vc.prevotes \cup vc.precommits :
              /\ entry[3] \in Validators
              /\ Cardinality(Voters(vc.prevotes, entry[1], entry[2])) <= NumValidators
              /\ Cardinality(Voters(vc.precommits, entry[1], entry[2])) <= NumValidators

\* C31: header handling. In the step in which node n handles message m, a header is
\* added to accepted_headers or a BLOCK_BODY_REQUEST is sent only if m is a BLOCK_HEADER
\* whose height is n's current_height and whose parent_hash is the hash of n's last
\* block, and then the header is accepted; a request is sent by n to the proposer named
\* in m, for m's block hash, and only if that hash was not requested before, after
\* which it is in requested_bodies for good; no other step of a node sends a request.
HeaderHandling ==
    [][phase = "node" =>
       LET requests == {q \in message_queue' \ message_queue :
                          q.message_type = "BLOCK_BODY_REQUEST"}
       IN /\ \A n \in Validators : requested_bodies[n] \subseteq requested_bodies'[n]
          /\ inboxes' = inboxes => requests = {}
          /\ \A n \in Validators : \A m \in inboxes[n] \ inboxes'[n] :
                LET e == consensus[n]
                    ok == /\ m.message_type = "BLOCK_HEADER"
                          /\ m.payload.header.height = e.current_height
                          /\ m.payload.header.parent_hash = LastBlock(e).block_hash
                IN /\ ~ok => /\ accepted_headers'[n] = accepted_headers[n]
                              /\ requested_bodies'[n] = requested_bodies[n]
                              /\ requests = {}
                   /\ ok => /\ m.payload.block_hash \in accepted_headers'[n]
                             /\ m.payload.block_hash \in requested_bodies'[n]
                             /\ (requests = {}) <=>
                                   (m.payload.block_hash \in requested_bodies[n])
                   /\ Cardinality(requests) <= 1
                   /\ \A q \in requests :
                         /\ q.sender = n
                         /\ q.receiver = m.payload.proposer_address
                         /\ q.payload.block_hash = m.payload.block_hash
                         /\ q.payload.block_hash \notin requested_bodies[n]]_vars

\* a node has accepted a header and its request for the body is on its way
HeaderHandlingWitness ==
    \E n \in Validators : \E q \in message_queue :
        /\ q.message_type = "BLOCK_BODY_REQUEST"
        /\ q.sender = n
        /\ q.payload.block_hash \in accepted_headers[n] \cap requested_bodies[n]

\* C32: building or validating a proposal never changes the committed state. In every
\* reachable state, propose_block on a node's pool and _validate_proposal on any
\* proposal in flight to the node leave its current_state, blockchain and
\* current_height as they are.
ProposalLeavesState ==
    \A n \in Validators :
        LET e == consensus[n]
            Same(f) == /\ f.current_state = e.current_state
                       /\ f.blockchain = e.blockchain
                       /\ f.current_height = e.current_height
        IN /\ Same(ProposeBlock(e, tx_pool[n]).engine)
           /\ \A m \in inboxes[n] \cup message_queue :
                m.message_type = "BLOCK_PROPOSAL" =>
                    Same(ValidateProposal(e, ProposalFromDict(m.payload)).engine)

\* a node holds a valid proposal whose execution changes balances, and the leader of
\* some node's height holds a transaction that propose_block would apply
ProposalLeavesStateWitness ==
    /\ \E n \in Validators : \E m \in inboxes[n] :
          /\ m.message_type = "BLOCK_PROPOSAL"
          /\ ValidateProposal(consensus[n], ProposalFromDict(m.payload)).ok
          /\ m.payload.block.header.state_hash # StateHash(consensus[n].current_state)
    /\ \E n \in Validators :
          /\ Len(tx_pool[n]) > 0
          /\ ProposeBlock(consensus[n], tx_pool[n]).proposal.block.header.state_hash
                # StateHash(consensus[n].current_state)

\* C33: no cross-block replay. The run submits one transfer of SingleAmount from
\* validator 0 to validator 1; in every node's committed state it has been applied at
\* most once, and no block of the chain after the first one that holds it holds it again.
NoCrossBlockReplay ==
    \A n \in Validators :
        /\ consensus[n].current_state[0] >= SingleBalance - SingleAmount
        /\ consensus[n].current_state[1] <= SingleBalance + SingleAmount

\* C34: an honest leader proposes at most one block per height. The blocks a node has
\* proposed are those whose body it keeps in pending_block_bodies; among them, which
\* its engine holds in pending_blocks, no two are for the same height.
OneProposalPerHeight ==
    \A n \in Validators :
        \A k1, k2 \in DOMAIN consensus[n].pending_blocks :
            (/\ k1[2] \in DOMAIN pending_block_bodies[n]
             /\ k2[2] \in DOMAIN pending_block_bodies[n]
             /\ k1[1] = k2[1]) => k1 = k2

\* C35: quorum is always acted upon. Between engine operations, a node has precommitted
\* at every height at which its collector holds a prevote quorum for some block, and
\* every pending block for which its collector holds a precommit quorum is in its chain.
QuorumActedUpon ==
    \A n \in Validators :
        LET e == consensus[n]
            vc == e.vote_collector
        IN /\ \A entry \in vc.prevotes :
                HasPrevoteMajority(vc, entry[1], entry[2]) =>
                    entry[1] \in DOMAIN e.precommitted
           /\ \A entry \in vc.precommits :
                (/\ HasPrecommitMajority(vc, entry[1], entry[2])
                 /\ HasPending(e, entry[1], entry[2])) =>
                    \E i \in 1 .. Len(e.blockchain) : e.blockchain[i].block_hash = entry[2]

\* C36: the committed state matches the chain head. For every node, the hash of
\* current_state is the state_hash in the header of the last block of blockchain.
StateMatchesHead ==
    \A n \in Validators :
        StateHash(consensus[n].current_state) = LastBlock(consensus[n]).header.state_hash

\* C37: current_height always equals len(blockchain), and a step that changes one of
\* them appends exactly one block and adds exactly 1 to current_height.
HeightIsChainLength ==
    [][\A n \in Validators :
        /\ consensus[n].current_height = Len(consensus[n].blockchain)
        /\ consensus'[n].current_height = Len(consensus'[n].blockchain)
        /\ \/ /\ consensus'[n].current_height = consensus[n].current_height
              /\ consensus'[n].blockchain = consensus[n].blockchain
           \/ /\ consensus'[n].current_height = consensus[n].current_height + 1
              /\ Len(consensus'[n].blockchain) = Len(consensus[n].blockchain) + 1]_vars

\* the engine has finalized one block: it is at height 2 with a chain of two blocks
HeightIsChainLengthWitness ==
    /\ phase = "engine"
    /\ consensus[0].current_height = 2
    /\ Len(consensus[0].blockchain) = 2
    /\ consensus[0].blockchain[2].header.height = 1

\* C38: a node prevotes only for a proposal made by the round-robin leader of that
\* height. For every height h at which a node has prevoted, the proposer in the header
\* of the block it prevoted is all_validators[(h - 1) mod N].
PrevoteOnlyForLeader ==
    \A n \in Validators :
        \A h \in DOMAIN consensus[n].prevoted :
            LET k == <<h, consensus[n].prevoted[h]>>
            IN k \in DOMAIN consensus[n].pending_blocks =>
                  consensus[n].pending_blocks[k].header.proposer
                     = all_validators[((h - 1) % NumValidators) + 1]

\* the sum of the balances of the addresses 0 .. n
RECURSIVE TotalSupply(_, _)
TotalSupply(state, n) == IF n < 0 THEN 0 ELSE state[n] + TotalSupply(state, n - 1)

====
